---- MODULE Spec2Model ----
(***************************************************************************)
(* Conversion routing and fallback execution of the 3D file converter.     *)
(*                                                                         *)
(* The repository holds two versions of the routing module: the            *)
(* BrepCad-aware one (routes 1-8, STEP/IGES handled by FreeCAD before the   *)
(* generic chains) and the older one (routes 1-7, no STEP/IGES routing, no  *)
(* hierarchy heuristic).  The variable routing says which of the two the    *)
(* server was built with; everything else is one convertFile call on one   *)
(* upload directory, cut at its await points.                              *)
(***************************************************************************)
EXTENDS Integers, Sequences, FiniteSets, TLC

-----------------------------------------------------------------------------
(* Format tables                                                           *)

SUPPORTED_INPUT_FORMATS ==
  {"obj", "stl", "fbx", "ply", "gltf", "glb", "dae", "3ds",
   "dxf", "dwg", "step", "stp", "iges", "igs"}

SUPPORTED_OUTPUT_FORMATS ==
  {"obj", "stl", "fbx", "ply", "gltf", "glb", "dae", "3ds",
   "dxf", "dwg", "step", "stp", "iges", "igs"}

SIMPLE_MESH_FORMATS == {"obj", "stl", "fbx", "ply", "glb", "gltf", "dae", "3ds"}

CAD_FORMATS == {"dxf", "dwg", "step", "iges", "stp", "igs"}

STEP_FORMATS == {"step", "stp"}

IGES_FORMATS == {"iges", "igs"}

BREP_CAD_FORMATS == {"step", "stp", "iges", "igs"}

FREECAD_INPUT_FORMATS == {"dxf", "step", "stp", "iges", "igs", "brep"}

\* Spellings a caller can hand in: the supported ones, some in upper case and
\* some outside the format universe.
InputExtensions == SUPPORTED_INPUT_FORMATS \cup {"OBJ", "xyz"}

OutputSpellings == SUPPORTED_OUTPUT_FORMATS \cup {"OBJ", "DWG", "xyz", "3mf"}

\* String.prototype.toLowerCase on the spellings above.
toLowerCase(s) ==
  CASE s = "OBJ" -> "obj"
    [] s = "DWG" -> "dwg"
    [] OTHER -> s

isSupportedInputFormat(format) == toLowerCase(format) \in SUPPORTED_INPUT_FORMATS

isSupportedOutputFormat(format) == toLowerCase(format) \in SUPPORTED_OUTPUT_FORMATS

isSimpleMesh(format) == format \in SIMPLE_MESH_FORMATS

isCadFormat(format) == format \in CAD_FORMATS

isDwgFormat(format) == format = "dwg"

isStepFormat(format) == format \in STEP_FORMATS

isIgesFormat(format) == format \in IGES_FORMATS

canFreecadHandle(inputFormat) == toLowerCase(inputFormat) \in FREECAD_INPUT_FORMATS

-----------------------------------------------------------------------------
(* Paths and the upload directory                                          *)

\* A file of the upload directory: base name and extension as spelled.
P(name, ext) == [name |-> name, ext |-> ext]

\* Lower-cased extension of a path.
getExtension(path) == toLowerCase(path.ext)

\* <base name of the input>.<format>
generateOutputFilename(path, format) == P(path.name, format)

\* temp_${Date.now()}.dxf / .obj / .stl of convertFile
TempDxf == P("temp_t", "dxf")

TempObj == P("temp_t", "obj")

TempStl == P("temp_t", "stl")

\* temp_step_${Date.now()}.step of route 5b
TempStep == P("temp_step_t", "step")

\* temp_aps_${Date.now()}.obj of the CAD chain in convertFile
Route7TempAps == P("temp_aps_t", "obj")

\* temp_aps_${Date.now()}.obj of convertWithFullFallback, taken at a later
\* Date.now() than any name taken by its caller
FbTempAps == P("temp_aps_u", "obj")

\* temp_freecad_${Date.now()}.stl of convertWithFullFallback
FbTempStl == P("temp_freecad_u", "stl")

\* The directory is a function from the existing paths to their content.
Write(fs, p, c) == [q \in (DOMAIN fs) \cup {p} |-> IF q = p THEN c ELSE fs[q]]

\* fs.remove(p).catch(() => {}): no error when p is absent
Remove(fs, p) == [q \in (DOMAIN fs) \ {p} |-> fs[q]]

\* fs.move(a, b, { overwrite: true })
Move(fs, a, b) == IF a = b THEN fs ELSE Remove(Write(fs, b, fs[a]), a)

\* fs.copy(a, b)
Copy(fs, a, b) == IF a = b THEN fs ELSE Write(fs, b, fs[a])

-----------------------------------------------------------------------------
(* Tool invocations, results and errors                                    *)

NoPath == P("", "")

NoCall == [tool |-> "none", fn |-> "none", src |-> NoPath, dst |-> NoPath]

Invocation(tool, fn, src, dst) == [tool |-> tool, fn |-> fn, src |-> src, dst |-> dst]

blenderConvert(src, dst) == Invocation("blender", "blenderConvert", src, dst)

assimpConvert(src, dst) == Invocation("assimp", "assimpConvert", src, dst)

\* The swap utility writes <base name of the input>.<format> next to its input.
odaConvert(src, format) ==
  Invocation("oda", "odaConvert", src, P(src.name, toLowerCase(format)))

apsConvert(src, dst) == Invocation("aps", "apsConvert", src, dst)

\* outputPath = <inputDir>/<inputBasename>.<outputFormat>
convertWithFreecad(src, format) ==
  Invocation("freecad", "convertWithFreecad", src, P(src.name, format))

convertMeshToStep(src, dst) == Invocation("freecad", "convertMeshToStep", src, dst)

convertCadToCad(src, dst) == Invocation("freecad", "convertCadToCad", src, dst)

\* Outcomes of the black-box adapters: a valid output file, or a failure.
Outcomes == {"ok", "fail"}

\* Outcomes of a FreeCAD adapter call: exit 0 with a non-empty output; a
\* non-zero exit, spawn error or missing output; exit 0 with an empty output.
FreecadOutcomes == {"ok", "fail", "empty"}

\* What an adapter call leaves in the directory.
Effect(fs, call, outcome) ==
  CASE outcome = "ok" -> Write(fs, call.dst, call.tool)
    [] outcome = "empty" -> Write(fs, call.dst, "empty")
    [] OTHER -> fs

NoErr ==
  [class |-> "none", origin |-> "none", id |-> 0, message |-> "",
   names |-> {}, msgs |-> {}]

\* The error a failed invocation rejects with; id is the position of the
\* invocation among the invocations of the call, and stands for its message.
ToolError(call, id) ==
  [class |-> IF call.tool = "freecad" THEN "ConversionError" ELSE "ToolInvocationError",
   origin |-> "tool", id |-> id, message |-> "tool diagnostic",
   names |-> {}, msgs |-> {id}]

\* new ConversionError(message, details) of the routing code: names are the
\* tools the text names, msgs the invocations whose message the text carries.
ConversionError(message, names, msgs) ==
  [class |-> "ConversionError", origin |-> "routing", id |-> 0,
   message |-> message, names |-> names, msgs |-> msgs]

UnsupportedFormatError(format) ==
  [class |-> "UnsupportedFormatError", origin |-> "routing", id |-> 0,
   message |-> format, names |-> {}, msgs |-> {}]

\* `Error: ${err.message}`: the message of a tool error is its diagnostic,
\* the message of a ConversionError is its first argument only.
MessageOf(err) == IF err.origin = "tool" THEN {err.id} ELSE {}

\* new ConversionError(`Failed to convert X to Y`, `<names> Error: ${err.message}`)
FailedToConvert(names, err) == ConversionError("Failed to convert", names, MessageOf(err))

ApsRequired == ConversionError("DWG/DXF conversion requires Autodesk APS", {"aps"}, {})

\* 'All conversion methods failed (Blender, FreeCAD, APS).'
AllCadMethodsFailed ==
  ConversionError("Failed to convert", {"blender", "freecad", "aps"}, {})

\* 'All conversion methods failed (Assimp, Blender, FreeCAD, APS). ...'
AllMethodsFailed ==
  ConversionError("Failed to convert", {"assimp", "blender", "freecad", "aps"}, {})

NoResult == [status |-> "none", tool |-> "none", err |-> NoErr]

-----------------------------------------------------------------------------
(* State                                                                   *)

VARIABLES
  routing,       \* "brep" or "legacy": the routing module in use
  apsAvailable,  \* isApsAvailable(): cloud credentials configured
  inputPath,     \* the uploaded file
  files,         \* the upload directory: existing path -> content
  hierarchy,     \* OBJ paths with an APS hierarchy map (getHierarchyForObj)
  colonHead,     \* OBJ paths with a "g name:index" line in their first 50KB
  pc,            \* position of the convertFile call
  pending,       \* the adapter call being awaited
  calls,         \* adapter calls settled so far, in order, with outcome
  probes,        \* number of isApsAvailable() calls made
  requested,     \* the outputFormat argument as the caller spelled it
  outputFormat,  \* normalizedOutputFormat
  outputPath,
  filesBefore,   \* directory listing when convertFile was called
  blenderErr,    \* the error caught on entry of the CAD chain
  fbIn, fbOut,   \* arguments of the running convertWithFullFallback
  fbRet,         \* its call site
  result,        \* what convertFile returned or threw
  inFlight,      \* adapter calls started and not yet settled
  now,           \* Date.now() of the server
  jobs,          \* the concurrent convertFile calls of the server
  freecadLimit,  \* the p-limit instance of the FreeCAD provider
  dir,           \* temporary files of the shared upload directory -> writer
  fcCall,        \* the FreeCAD adapter call followed: function, position, paths
  proc,          \* its child process: state, killed by the timeout, events
  runPromise,    \* the promise runFreecad / runFreecadScript returned
  outFile,       \* what is at the output path of the adapter call
  fcResult,      \* the promise the adapter call returned
  batchJobs,     \* the keys of the jobs map of the batch manager
  job,           \* the BatchJob object created by createBatchJob
  disk,          \* the files of the job in the upload directory
  workers,       \* the processBatchJob invocations
  cleaners,      \* the cleanupJob invocations
  started,       \* the convertFile calls of the job, in order
  rateLimitStore, \* the entries of the rate limiter: key -> count, resetTime
  clock,         \* Date.now() seen by the rate limiter, in ms
  windows,       \* per kind of request: the window it is in, requests let through
  reply,         \* what the rate limiter did with the last request
  queried        \* number of requests with a query string so far

vars ==
  <<routing, apsAvailable, inputPath, files, hierarchy, colonHead, pc, pending,
    calls, probes, requested, outputFormat, outputPath, filesBefore, blenderErr,
    fbIn, fbOut, fbRet, result, inFlight, now, jobs, freecadLimit, dir,
    fcCall, proc, runPromise, outFile, fcResult,
    batchJobs, job, disk, workers, cleaners, started,
    rateLimitStore, clock, windows, reply, queried>>

\* The state shared by concurrent calls; one call alone does not touch it.
server == <<now, jobs, freecadLimit, dir>>

\* The state of one FreeCAD adapter call, followed on its own.
adapter == <<fcCall, proc, runPromise, outFile, fcResult>>

\* The state of the batch job manager, followed on its own.
batch == <<batchJobs, job, disk, workers, cleaners, started>>

\* The state of the rate limiter, followed on its own.
limiter == <<rateLimitStore, clock, windows, reply, queried>>

Modules == {"brep", "legacy"}

\* Number of convertFile calls the server runs side by side.
NumRequests == 3

Requests == 1..NumRequests

\* A call that has not been made yet.
NoJob == [pc |-> "idle", kind |-> "none", temp |-> NoPath]

\* The child process of the adapter call before spawn.
NoProc == [state |-> "none", killed |-> FALSE, errors |-> 0, code |-> "none"]

\* new Promise(...) before resolve or reject was called.
PendingPromise ==
  [state |-> "pending", outputPath |-> NoPath, err |-> NoErr, settles |-> 0]

\* Number of processBatchJob invocations for the job.
NumInvocations == 2

Invocations == 1..NumInvocations

\* The two callers of cleanupJob: the DELETE route and the TTL timer.
Cleaners == {"delete", "ttl"}

\* Before createBatchJob.
NoBatchJob ==
  [isProcessing |-> FALSE, completedCount |-> 0, totalCount |-> 0, files |-> <<>>]

\* An invocation that has not been made yet.
NoRun == [pc |-> "idle", file |-> 0, src |-> FALSE]

\* The part of the state one code segment reads and writes.
Cur ==
  [pc |-> pc, pending |-> pending, files |-> files, probes |-> probes,
   outputFormat |-> outputFormat, outputPath |-> outputPath,
   blenderErr |-> blenderErr, fbIn |-> fbIn, fbOut |-> fbOut, fbRet |-> fbRet,
   hierarchy |-> hierarchy, colonHead |-> colonHead, result |-> result]

Set(t) ==
  /\ pc' = t.pc
  /\ pending' = t.pending
  /\ files' = t.files
  /\ probes' = t.probes
  /\ outputFormat' = t.outputFormat
  /\ outputPath' = t.outputPath
  /\ blenderErr' = t.blenderErr
  /\ fbIn' = t.fbIn
  /\ fbOut' = t.fbOut
  /\ fbRet' = t.fbRet
  /\ hierarchy' = t.hierarchy
  /\ colonHead' = t.colonHead
  /\ result' = t.result

\* return { outputPath, tool, duration }
Return(s, tool, fs) ==
  [s EXCEPT !.pc = "done", !.pending = NoCall, !.files = fs,
            !.result = [status |-> "ok", tool |-> tool, err |-> NoErr]]

\* throw err
Throw(s, err, fs) ==
  [s EXCEPT !.pc = "done", !.pending = NoCall, !.files = fs,
            !.result = [status |-> "error", tool |-> "none", err |-> err]]

\* await <adapter call>
Await(s, pos, call, fs) == [s EXCEPT !.pc = pos, !.pending = call, !.files = fs]

Init ==
  /\ routing \in Modules
  /\ apsAvailable \in BOOLEAN
  /\ \E ext \in InputExtensions : inputPath = P("model", ext)
  /\ files = [p \in {inputPath} |-> "src"]
  /\ hierarchy \in IF getExtension(inputPath) = "obj" THEN {{}, {inputPath}} ELSE {{}}
  /\ colonHead \in IF getExtension(inputPath) = "obj" THEN {{}, {inputPath}} ELSE {{}}
  /\ pc = "idle"
  /\ pending = NoCall
  /\ calls = <<>>
  /\ probes = 0
  /\ requested = ""
  /\ outputFormat = ""
  /\ outputPath = NoPath
  /\ filesBefore = {}
  /\ blenderErr = NoErr
  /\ fbIn = NoPath
  /\ fbOut = NoPath
  /\ fbRet = "none"
  /\ result = NoResult
  /\ inFlight = {}
  /\ now = 0
  /\ jobs = [r \in Requests |-> NoJob]
  /\ freecadLimit = [active |-> {}, queue |-> <<>>]
  /\ dir = [p \in {} |-> 0]
  /\ fcCall = [fn |-> "none", pc |-> "idle", src |-> NoPath, dst |-> NoPath]
  /\ proc = NoProc
  /\ runPromise = PendingPromise
  /\ outFile = "missing"
  /\ fcResult = PendingPromise
  /\ batchJobs = {}
  /\ job = NoBatchJob
  /\ disk = {}
  /\ workers = [w \in Invocations |-> NoRun]
  /\ cleaners = [c \in Cleaners |-> NoRun]
  /\ started = <<>>
  /\ rateLimitStore = [k \in {} |-> 0]
  /\ clock = 0
  /\ windows = [k \in {"convert", "general"} |-> [resetTime |-> -1, passed |-> 0]]
  /\ reply = [kind |-> "none", status |-> 0, retryAfter |-> FALSE, counted |-> FALSE]
  /\ queried = 0

-----------------------------------------------------------------------------
(* convertWithFullFallback                                                 *)

getHierarchyForObj(s, path) == path \in s.hierarchy

\* Reads the first 50KB of the file; an unreadable file counts as "no".
objHasColonNotationGroups(s, path) ==
  path \in DOMAIN s.files /\ path \in s.colonHead

\* The hierarchy test without its condition on the output format.
preferBlenderForHierarchy_AnyOutput(s, in, out) ==
  LET inputFormat == getExtension(in)
      hasApsHierarchyData ==
        /\ inputFormat = "obj"
        /\ getHierarchyForObj(s, in)
      hasColonNotation ==
        /\ inputFormat = "obj"
        /\ ~hasApsHierarchyData
        /\ objHasColonNotationGroups(s, in)
  IN  routing = "brep" /\ (hasApsHierarchyData \/ hasColonNotation)

\* preferBlenderForHierarchy of the BrepCad-aware module; the older module
\* has no such test.
preferBlenderForHierarchy(s, in, out) ==
  LET inputFormat == getExtension(in)
      outFormat == getExtension(out)
      hasApsHierarchyData ==
        /\ inputFormat = "obj"
        /\ outFormat \in {"glb", "gltf"}
        /\ getHierarchyForObj(s, in)
      hasColonNotation ==
        /\ inputFormat = "obj"
        /\ outFormat \in {"glb", "gltf"}
        /\ ~hasApsHierarchyData
        /\ objHasColonNotationGroups(s, in)
  IN  routing = "brep" /\ (hasApsHierarchyData \/ hasColonNotation)

\* Entry of convertWithFullFallback, up to its first adapter call.
FbEnter(s, site, in, out) ==
  LET t == [s EXCEPT !.fbIn = in, !.fbOut = out, !.fbRet = site]
  IN  IF /\ isSimpleMesh(getExtension(in))
         /\ isSimpleMesh(getExtension(out))
         /\ ~preferBlenderForHierarchy(s, in, out)
      THEN Await(t, "fb_assimp", assimpConvert(in, out), s.files)
      ELSE Await(t, "fb_blender", blenderConvert(in, out), s.files)

\* catch (freecadErr) of the CAD chain: APS as last resort, else give up;
\* the finally removes the temporary STL once the block is left.
Route7AfterFreecadFail(s) ==
  LET t == [s EXCEPT !.probes = @ + 1]
  IN  IF apsAvailable
      THEN Await(t, "r7_aps_in", apsConvert(inputPath, Route7TempAps), s.files)
      ELSE Throw(t, AllCadMethodsFailed, Remove(s.files, TempStl))

\* convertWithFullFallback returned tool: the rest of its caller.
FbReturn(s, tool) ==
  CASE s.fbRet = "r3" -> Return(s, "pipeline", Remove(s.files, TempObj))
    [] s.fbRet = "r5a" -> Return(s, "pipeline", Remove(s.files, TempStl))
    [] s.fbRet = "r7_fc" -> Return(s, "pipeline", Remove(s.files, TempStl))
    [] s.fbRet = "r7_aps_in" ->
         Return(s, "aps", Remove(Remove(s.files, Route7TempAps), TempStl))
    [] s.fbRet = "r7_aps_out" -> Return(s, "aps", Remove(s.files, Route7TempAps))
    [] OTHER -> Return(s, tool, s.files)

\* convertWithFullFallback threw err: the rest of its caller.
FbThrow(s, err) ==
  CASE s.fbRet = "r3" -> Throw(s, FailedToConvert({}, err), Remove(s.files, TempObj))
    [] s.fbRet = "r5a" -> Throw(s, FailedToConvert({}, err), Remove(s.files, TempStl))
    [] s.fbRet = "r7_fc" -> Route7AfterFreecadFail(s)
    [] s.fbRet = "r7_aps_in" -> Throw(s, AllCadMethodsFailed, Remove(s.files, TempStl))
    [] s.fbRet = "r7_aps_out" -> Throw(s, s.blenderErr, s.files)
    [] OTHER -> Throw(s, err, s.files)

\* The APS step of the chain without the availability test.
FbTryAps_NoCheck(s) ==
  Await([s EXCEPT !.probes = @ + 1], "fb_aps", apsConvert(s.fbIn, FbTempAps), s.files)

\* Step 4 of the chain: APS if it is available, else "all methods failed".
FbTryAps(s) ==
  LET t == [s EXCEPT !.probes = @ + 1]
  IN  IF apsAvailable
      THEN Await(t, "fb_aps", apsConvert(s.fbIn, FbTempAps), s.files)
      ELSE FbThrow(t, AllMethodsFailed)

\* Step 3 of the chain: FreeCAD only for the formats it reads.
FbTryFreecad(s) ==
  IF canFreecadHandle(getExtension(s.fbIn))
  THEN Await(s, "fb_freecad", convertWithFreecad(s.fbIn, "stl"), s.files)
  ELSE FbTryAps(s)

\* The chain giving up when Assimp fails.
FbAfterAssimp_NoFallback(s, o) ==
  IF o = "ok"
  THEN FbReturn(s, "assimp")
  ELSE FbThrow(s, AllMethodsFailed)

\* Step 1 settled.
FbAfterAssimp(s, o) ==
  IF o = "ok"
  THEN FbReturn(s, "assimp")
  ELSE Await(s, "fb_blender", blenderConvert(s.fbIn, s.fbOut), s.files)

\* Step 2 settled.
FbAfterBlender(s, o) ==
  IF o = "ok" THEN FbReturn(s, "blender") ELSE FbTryFreecad(s)

\* Step 4, apsConvert to the temporary OBJ settled.
FbAfterAps(s, o) ==
  IF o = "ok"
  THEN IF getExtension(s.fbOut) = "obj"
       THEN FbReturn([s EXCEPT !.files = Move(s.files, FbTempAps, s.fbOut)], "aps")
       ELSE Await(s, "fb_aps_blender", blenderConvert(FbTempAps, s.fbOut), s.files)
  ELSE FbThrow([s EXCEPT !.files = Remove(s.files, FbTempAps)], AllMethodsFailed)

\* Step 4 trying Blender on the temporary OBJ again when it failed.
FbAfterApsBlender_Retry(s, o) ==
  IF o = "ok"
  THEN FbReturn([s EXCEPT !.files = Remove(s.files, FbTempAps)], "aps")
  ELSE IF Len(calls) < 6
  THEN Await(s, "fb_aps_blender", blenderConvert(FbTempAps, s.fbOut), s.files)
  ELSE FbThrow([s EXCEPT !.files = Remove(s.files, FbTempAps)], AllMethodsFailed)

\* Step 4, blenderConvert of the temporary OBJ settled.
FbAfterApsBlender(s, o) ==
  IF o = "ok"
  THEN FbReturn([s EXCEPT !.files = Remove(s.files, FbTempAps)], "aps")
  ELSE FbThrow([s EXCEPT !.files = Remove(s.files, FbTempAps)], AllMethodsFailed)

-----------------------------------------------------------------------------
(* convertFile: choice of the route                                        *)

\* The if-chain with the output format validated before the input format.
SelectRoute_OutputFirst(inputFormat, normalizedOutputFormat) ==
  IF ~isSupportedOutputFormat(normalizedOutputFormat) THEN "unsupported_output"
  ELSE IF ~isSupportedInputFormat(inputFormat) THEN "unsupported_input"
  ELSE IF inputFormat = normalizedOutputFormat THEN "copy"
  ELSE IF \/ (inputFormat = "dxf" /\ normalizedOutputFormat = "dwg")
          \/ (inputFormat = "dwg" /\ normalizedOutputFormat = "dxf") THEN "r1"
  ELSE IF normalizedOutputFormat = "dwg" /\ inputFormat # "dxf" THEN "r2"
  ELSE IF isDwgFormat(inputFormat) \/ inputFormat = "dxf" THEN "r3"
  ELSE IF normalizedOutputFormat = "dxf" THEN "r4"
  ELSE IF isStepFormat(inputFormat) \/ isIgesFormat(inputFormat)
       THEN IF isStepFormat(normalizedOutputFormat) \/ isIgesFormat(normalizedOutputFormat)
            THEN "r5a_cad"
            ELSE IF normalizedOutputFormat = "dxf" THEN "r5a_dxf"
            ELSE IF normalizedOutputFormat = "dwg" THEN "r5a_dwg"
            ELSE "r5a_mesh"
  ELSE IF isStepFormat(normalizedOutputFormat) \/ isIgesFormat(normalizedOutputFormat)
       THEN "r5b"
  ELSE IF isSimpleMesh(inputFormat) /\ isSimpleMesh(normalizedOutputFormat) THEN "r6"
  ELSE IF isCadFormat(inputFormat) \/ isCadFormat(normalizedOutputFormat) THEN "r7"
  ELSE "r8"

\* The if-chain without the STEP/IGES tests of route 5.
SelectRoute_NoStepRouting(inputFormat, normalizedOutputFormat) ==
  IF ~isSupportedInputFormat(inputFormat) THEN "unsupported_input"
  ELSE IF ~isSupportedOutputFormat(normalizedOutputFormat) THEN "unsupported_output"
  ELSE IF inputFormat = normalizedOutputFormat THEN "copy"
  ELSE IF \/ (inputFormat = "dxf" /\ normalizedOutputFormat = "dwg")
          \/ (inputFormat = "dwg" /\ normalizedOutputFormat = "dxf") THEN "r1"
  ELSE IF normalizedOutputFormat = "dwg" /\ inputFormat # "dxf" THEN "r2"
  ELSE IF isDwgFormat(inputFormat) \/ inputFormat = "dxf" THEN "r3"
  ELSE IF normalizedOutputFormat = "dxf" THEN "r4"
  ELSE IF isSimpleMesh(inputFormat) /\ isSimpleMesh(normalizedOutputFormat) THEN "r6"
  ELSE IF isCadFormat(inputFormat) \/ isCadFormat(normalizedOutputFormat) THEN "r7"
  ELSE "r8"

\* The if-chain of the BrepCad-aware module, first match wins.
SelectRoute(inputFormat, normalizedOutputFormat) ==
  IF ~isSupportedInputFormat(inputFormat) THEN "unsupported_input"
  ELSE IF ~isSupportedOutputFormat(normalizedOutputFormat) THEN "unsupported_output"
  ELSE IF inputFormat = normalizedOutputFormat THEN "copy"
  ELSE IF \/ (inputFormat = "dxf" /\ normalizedOutputFormat = "dwg")
          \/ (inputFormat = "dwg" /\ normalizedOutputFormat = "dxf") THEN "r1"
  ELSE IF normalizedOutputFormat = "dwg" /\ inputFormat # "dxf" THEN "r2"
  ELSE IF isDwgFormat(inputFormat) \/ inputFormat = "dxf" THEN "r3"
  ELSE IF normalizedOutputFormat = "dxf" THEN "r4"
  ELSE IF isStepFormat(inputFormat) \/ isIgesFormat(inputFormat)
       THEN IF isStepFormat(normalizedOutputFormat) \/ isIgesFormat(normalizedOutputFormat)
            THEN "r5a_cad"
            ELSE IF normalizedOutputFormat = "dxf" THEN "r5a_dxf"
            ELSE IF normalizedOutputFormat = "dwg" THEN "r5a_dwg"
            ELSE "r5a_mesh"
  ELSE IF isStepFormat(normalizedOutputFormat) \/ isIgesFormat(normalizedOutputFormat)
       THEN "r5b"
  ELSE IF isSimpleMesh(inputFormat) /\ isSimpleMesh(normalizedOutputFormat) THEN "r6"
  ELSE IF isCadFormat(inputFormat) \/ isCadFormat(normalizedOutputFormat) THEN "r7"
  ELSE "r8"

\* The if-chain of the older module; its routes 5, 6 and 7 are the routes
\* 6, 7 and 8 of the BrepCad-aware module.
SelectRouteLegacy(inputFormat, normalizedOutputFormat) ==
  IF ~isSupportedInputFormat(inputFormat) THEN "unsupported_input"
  ELSE IF ~isSupportedOutputFormat(normalizedOutputFormat) THEN "unsupported_output"
  ELSE IF inputFormat = normalizedOutputFormat THEN "copy"
  ELSE IF \/ (inputFormat = "dxf" /\ normalizedOutputFormat = "dwg")
          \/ (inputFormat = "dwg" /\ normalizedOutputFormat = "dxf") THEN "r1"
  ELSE IF normalizedOutputFormat = "dwg" /\ inputFormat # "dxf" THEN "r2"
  ELSE IF isDwgFormat(inputFormat) \/ inputFormat = "dxf" THEN "r3"
  ELSE IF normalizedOutputFormat = "dxf" THEN "r4"
  ELSE IF isSimpleMesh(inputFormat) /\ isSimpleMesh(normalizedOutputFormat) THEN "r6"
  ELSE IF isCadFormat(inputFormat) \/ isCadFormat(normalizedOutputFormat) THEN "r7"
  ELSE "r8"

\* Route 3 without the availability check.
Route3Enter_NoCheck(s) ==
  LET t == [s EXCEPT !.probes = @ + 1]
  IN  IF s.outputFormat = "obj" \/ s.outputFormat = "stl"
      THEN Await(t, "r3_direct", apsConvert(inputPath, s.outputPath), s.files)
      ELSE Await(t, "r3_aps", apsConvert(inputPath, TempObj), s.files)

\* Route 3 with the availability check inverted.
Route3Enter_Inverted(s) ==
  LET t == [s EXCEPT !.probes = @ + 1]
  IN  IF apsAvailable
      THEN Throw(t, ApsRequired, s.files)
      ELSE IF s.outputFormat = "obj" \/ s.outputFormat = "stl"
           THEN Await(t, "r3_direct", apsConvert(inputPath, s.outputPath), s.files)
           ELSE Await(t, "r3_aps", apsConvert(inputPath, TempObj), s.files)

\* Route 3, from the availability check to the first adapter call.
Route3Enter(s) ==
  LET t == [s EXCEPT !.probes = @ + 1]
  IN  IF ~apsAvailable
      THEN Throw(t, ApsRequired, s.files)
      ELSE IF s.outputFormat = "obj" \/ s.outputFormat = "stl"
           THEN Await(t, "r3_direct", apsConvert(inputPath, s.outputPath), s.files)
           ELSE Await(t, "r3_aps", apsConvert(inputPath, TempObj), s.files)

\* Route 5b, up to the first adapter call.
Route5bEnter(s) ==
  IF getExtension(inputPath) = "dwg" \/ getExtension(inputPath) = "dxf"
  THEN LET t == [s EXCEPT !.probes = @ + 1]
       IN  IF ~apsAvailable
           THEN Throw(t, FailedToConvert({}, ApsRequired), Remove(s.files, TempStl))
           ELSE Await(t, "r5b_aps", apsConvert(inputPath, Route7TempAps), s.files)
  ELSE Await(s, "r5b_blender", blenderConvert(inputPath, TempStl), s.files)

\* The body of the chosen route, up to its first adapter call.
EnterRoute(s, route) ==
  CASE route = "unsupported_input" ->
         Throw(s, UnsupportedFormatError(getExtension(inputPath)), s.files)
    [] route = "unsupported_output" ->
         Throw(s, UnsupportedFormatError(s.outputFormat), s.files)
    [] route = "copy" ->
         Return(s, "assimp", Copy(s.files, inputPath, s.outputPath))
    [] route = "r1" ->
         Await(s, "r1_oda", odaConvert(inputPath, s.outputFormat), s.files)
    [] route = "r2" ->
         Await(s, "r2_blender", blenderConvert(inputPath, TempDxf), s.files)
    [] route = "r3" -> Route3Enter(s)
    [] route = "r4" ->
         Await(s, "r4_blender", blenderConvert(inputPath, s.outputPath), s.files)
    [] route = "r5a_cad" ->
         Await(s, "r5a_cad", convertCadToCad(inputPath, s.outputPath), s.files)
    [] route = "r5a_dxf" ->
         Await(s, "r5a_dxf", convertCadToCad(inputPath, s.outputPath), s.files)
    [] route = "r5a_dwg" ->
         Await(s, "r5a_dwg", convertCadToCad(inputPath, TempDxf), s.files)
    [] route = "r5a_mesh" ->
         Await(s, "r5a_freecad", convertWithFreecad(inputPath, "stl"), s.files)
    [] route = "r5b" -> Route5bEnter(s)
    [] route = "r6" -> FbEnter(s, "r6", inputPath, s.outputPath)
    [] route = "r7" ->
         Await(s, "r7_blender", blenderConvert(inputPath, s.outputPath), s.files)
    [] OTHER -> FbEnter(s, "r8", inputPath, s.outputPath)

\* convertFile comparing the output format as the caller spelled it.
convertFile_NoLowerCase(s, format) ==
  LET inputFormat == getExtension(inputPath)
      normalizedOutputFormat == format
      t == [s EXCEPT !.outputFormat = normalizedOutputFormat,
                     !.outputPath = generateOutputFilename(inputPath, normalizedOutputFormat)]
      route == IF routing = "brep"
               THEN SelectRoute(inputFormat, normalizedOutputFormat)
               ELSE SelectRouteLegacy(inputFormat, normalizedOutputFormat)
  IN  EnterRoute(t, route)

\* convertFile(inputPath, outputFormat) up to its first await.
convertFile(s, format) ==
  LET inputFormat == getExtension(inputPath)
      normalizedOutputFormat == toLowerCase(format)
      t == [s EXCEPT !.outputFormat = normalizedOutputFormat,
                     !.outputPath = generateOutputFilename(inputPath, normalizedOutputFormat)]
      route == IF routing = "brep"
               THEN SelectRoute(inputFormat, normalizedOutputFormat)
               ELSE SelectRouteLegacy(inputFormat, normalizedOutputFormat)
  IN  EnterRoute(t, route)

-----------------------------------------------------------------------------
(* convertFile: what follows each adapter call                             *)

\* Route 1 falling back to Blender when ODA fails.
Route1AfterOda_Fallback(s, o, err) ==
  IF o = "ok"
  THEN Return(s, "oda", Move(s.files, s.pending.dst, s.outputPath))
  ELSE Await(s, "r4_blender", blenderConvert(inputPath, s.outputPath), s.files)

\* Route 1, odaConvert settled.
Route1AfterOda(s, o, err) ==
  IF o = "ok"
  THEN Return(s, "oda", Move(s.files, s.pending.dst, s.outputPath))
  ELSE Throw(s, FailedToConvert({"oda"}, err), s.files)

\* Route 2 going on to ODA whatever Blender did.
Route2AfterBlender_NoStop(s, o, err) ==
  Await(s, "r2_oda", odaConvert(TempDxf, "DWG"), s.files)

\* Route 2, blenderConvert to the temporary DXF settled.
Route2AfterBlender(s, o, err) ==
  IF o = "ok"
  THEN Await(s, "r2_oda", odaConvert(TempDxf, "DWG"), s.files)
  ELSE Throw(s, FailedToConvert({}, err), Remove(s.files, TempDxf))

\* Route 2, odaConvert of the temporary DXF settled.
Route2AfterOda(s, o, err) ==
  IF o = "ok"
  THEN Return(s, "pipeline",
              Remove(Move(s.files, s.pending.dst, s.outputPath), TempDxf))
  ELSE Throw(s, FailedToConvert({}, err), Remove(s.files, TempDxf))

\* Route 3 trying the generic chain when the direct APS conversion fails.
Route3AfterDirect_Fallback(s, o, err) ==
  IF o = "ok"
  THEN Return(s, "aps", s.files)
  ELSE FbEnter(s, "r6", inputPath, s.outputPath)

\* Route 3, direct apsConvert to OBJ/STL settled.
Route3AfterDirect(s, o, err) ==
  IF o = "ok"
  THEN Return(s, "aps", s.files)
  ELSE Throw(s, FailedToConvert({"aps"}, err), s.files)

\* Route 3 handing the original input, not the APS output, to the chain.
Route3AfterAps_WrongInput(s, o, err) ==
  IF o = "ok"
  THEN FbEnter(s, "r3", inputPath, s.outputPath)
  ELSE Throw(s, FailedToConvert({}, err), Remove(s.files, TempObj))

\* Route 3, apsConvert to the temporary OBJ settled.
Route3AfterAps(s, o, err) ==
  IF o = "ok"
  THEN FbEnter(s, "r3", TempObj, s.outputPath)
  ELSE Throw(s, FailedToConvert({}, err), Remove(s.files, TempObj))

\* Route 4 trying the generic chain when Blender fails.
Route4AfterBlender_Fallback(s, o, err) ==
  IF o = "ok"
  THEN Return(s, "blender", s.files)
  ELSE FbTryAps([s EXCEPT !.fbIn = inputPath, !.fbOut = s.outputPath, !.fbRet = "r6"])

\* Route 4, blenderConvert settled.
Route4AfterBlender(s, o, err) ==
  IF o = "ok"
  THEN Return(s, "blender", s.files)
  ELSE Throw(s, FailedToConvert({"blender"}, err), s.files)

\* Route 5a falling back to the generic chain when FreeCAD fails.
Route5aAfterCadToCad_Fallback(s, o, err) ==
  IF o = "ok"
  THEN Return(s, "pipeline", s.files)
  ELSE FbEnter(s, "r5a", inputPath, s.outputPath)

\* Route 5a, CAD-to-CAD convertCadToCad settled.
Route5aAfterCadToCad(s, o, err) ==
  IF o = "ok"
  THEN Return(s, "pipeline", s.files)
  ELSE Throw(s, FailedToConvert({"freecad"}, err), s.files)

\* Route 5a handing the STL to the chain also when STL is the target.
Route5aAfterFreecad_AlwaysChain(s, o, err) ==
  IF o = "ok"
  THEN FbEnter([s EXCEPT !.files = Move(s.files, s.pending.dst, TempStl)],
               "r5a", TempStl, s.outputPath)
  ELSE Throw(s, FailedToConvert({}, err), Remove(s.files, TempStl))

\* Route 5a, convertWithFreecad to STL settled.
Route5aAfterFreecad(s, o, err) ==
  IF o = "ok"
  THEN LET moved == Move(s.files, s.pending.dst, TempStl)
       IN  IF s.outputFormat = "stl"
           THEN Return(s, "pipeline", Remove(Move(moved, TempStl, s.outputPath), TempStl))
           ELSE FbEnter([s EXCEPT !.files = moved], "r5a", TempStl, s.outputPath)
  ELSE Throw(s, FailedToConvert({}, err), Remove(s.files, TempStl))

\* Route 5b exporting IGES straight from the STL, without the STEP in between.
Route5bAfterBlender_IgesDirect(s, o, err) ==
  IF o = "ok"
  THEN Await(s, "r5b_step", convertMeshToStep(TempStl, s.outputPath), s.files)
  ELSE Throw(s, FailedToConvert({}, err), Remove(s.files, TempStl))

\* Route 5b, blenderConvert to the temporary STL settled.
Route5bAfterBlender(s, o, err) ==
  IF o = "ok"
  THEN IF isStepFormat(s.outputFormat)
       THEN Await(s, "r5b_step", convertMeshToStep(TempStl, s.outputPath), s.files)
       ELSE Await(s, "r5b_iges_step", convertMeshToStep(TempStl, TempStep), s.files)
  ELSE Throw(s, FailedToConvert({}, err), Remove(s.files, TempStl))

\* Route 5b, STEP output: convertMeshToStep settled.
Route5bAfterMeshToStep(s, o, err) ==
  IF o = "ok"
  THEN Return(s, "pipeline", Remove(s.files, TempStl))
  ELSE Throw(s, FailedToConvert({}, err), Remove(s.files, TempStl))

\* Route 5b, IGES output: convertMeshToStep to the temporary STEP settled.
Route5bAfterIgesStep(s, o, err) ==
  IF o = "ok"
  THEN Await(s, "r5b_iges_cad", convertCadToCad(TempStep, s.outputPath), s.files)
  ELSE Throw(s, FailedToConvert({}, err), Remove(s.files, TempStl))

\* Route 5b, IGES output: convertCadToCad of the temporary STEP settled.
Route5bAfterIgesCad(s, o, err) ==
  IF o = "ok"
  THEN Return(s, "pipeline", Remove(Remove(s.files, TempStep), TempStl))
  ELSE Throw(s, FailedToConvert({}, err), Remove(s.files, TempStl))

\* CAD chain: when FreeCAD cannot read the input, APS directly, else rethrow.
Route7OuterAps(s) ==
  LET t == [s EXCEPT !.probes = @ + 1]
  IN  IF apsAvailable
      THEN Await(t, "r7_aps_out", apsConvert(inputPath, Route7TempAps), s.files)
      ELSE Throw(t, s.blenderErr, s.files)

\* CAD chain, blenderConvert settled.
Route7AfterBlender(s, o, err) ==
  IF o = "ok"
  THEN Return(s, "blender", s.files)
  ELSE LET t == [s EXCEPT !.blenderErr = err]
       IN  IF canFreecadHandle(getExtension(inputPath))
           THEN Await(t, "r7_freecad", convertWithFreecad(inputPath, "stl"), s.files)
           ELSE Route7OuterAps(t)

\* CAD chain, convertWithFreecad to STL settled.
Route7AfterFreecad(s, o, err) ==
  IF o = "ok"
  THEN LET moved == Move(s.files, s.pending.dst, TempStl)
       IN  IF s.outputFormat = "stl"
           THEN Return(s, "pipeline", Remove(Move(moved, TempStl, s.outputPath), TempStl))
           ELSE FbEnter([s EXCEPT !.files = moved], "r7_fc", TempStl, s.outputPath)
  ELSE Route7AfterFreecadFail(s)

\* CAD chain, apsConvert after FreeCAD failed settled.
Route7AfterInnerAps(s, o, err) ==
  IF o = "ok"
  THEN IF s.outputFormat = "obj"
       THEN Return(s, "aps", Remove(Move(s.files, Route7TempAps, s.outputPath), TempStl))
       ELSE FbEnter(s, "r7_aps_in", Route7TempAps, s.outputPath)
  ELSE Throw(s, AllCadMethodsFailed, Remove(s.files, TempStl))

\* CAD chain, apsConvert without FreeCAD settled.
Route7AfterOuterAps(s, o, err) ==
  IF o = "ok"
  THEN IF s.outputFormat = "obj"
       THEN Return(s, "aps", Move(s.files, Route7TempAps, s.outputPath))
       ELSE FbEnter(s, "r7_aps_out", Route7TempAps, s.outputPath)
  ELSE Throw(s, s.blenderErr, s.files)

-----------------------------------------------------------------------------
(* Actions: one per await point                                            *)

\* The awaited call, settled with outcome o, joins the log.
Settled(o) ==
  Append(calls, [tool |-> pending.tool, fn |-> pending.fn, src |-> pending.src,
                 dst |-> pending.dst, outcome |-> o])

\* The state right after the awaited call settled with outcome o.
After(o) == [Cur EXCEPT !.files = Effect(files, pending, o)]

\* The same after an apsConvert, which may register a hierarchy map for the
\* OBJ it wrote (h) and may write "g name:index" groups into it (c).
AfterAps(o, h, c) ==
  [After(o) EXCEPT !.hierarchy = IF h THEN @ \cup {pending.dst} ELSE @,
                   !.colonHead = IF c THEN @ \cup {pending.dst} ELSE @]

\* Only an OBJ that was written can carry hierarchy data.
ApsMetadata(o, h, c) ==
  (o # "ok" \/ getExtension(pending.dst) # "obj") => (~h /\ ~c)

\* The error the awaited call rejects with.
Failure == ToolError(pending, Len(calls) + 1)

\* The next call started without waiting for the awaited one to settle.
Launch_NoAwait(flying, settled, next) == flying \cup ({next} \ {NoCall})

\* await: the code after it runs once the awaited call has settled, so the
\* next call starts when the settled one has left the calls in flight.
Launch(flying, settled, next) == (flying \ {settled}) \cup ({next} \ {NoCall})

\* A caller starts convertFile(inputPath, format).
Call ==
  /\ pc = "idle"
  /\ \E format \in OutputSpellings :
       /\ requested' = format
       /\ Set(convertFile(Cur, format))
       /\ inFlight' = Launch(inFlight, pending, pending')
  /\ filesBefore' = DOMAIN files
  /\ UNCHANGED <<routing, apsAvailable, inputPath, calls, server, adapter, batch, limiter>>

\* Route 1: the awaited odaConvert settles.
Route1_OdaDone ==
  /\ pc = "r1_oda"
  /\ \E o \in Outcomes :
       /\ calls' = Settled(o)
       /\ Set(Route1AfterOda(After(o), o, Failure))
       /\ inFlight' = Launch(inFlight, pending, pending')
  /\ UNCHANGED <<routing, apsAvailable, inputPath, requested, filesBefore, server, adapter, batch, limiter>>

\* Route 2: blenderConvert to the temporary DXF settles.
Route2_BlenderDone ==
  /\ pc = "r2_blender"
  /\ \E o \in Outcomes :
       /\ calls' = Settled(o)
       /\ Set(Route2AfterBlender(After(o), o, Failure))
       /\ inFlight' = Launch(inFlight, pending, pending')
  /\ UNCHANGED <<routing, apsAvailable, inputPath, requested, filesBefore, server, adapter, batch, limiter>>

\* Route 2: odaConvert of the temporary DXF settles.
Route2_OdaDone ==
  /\ pc = "r2_oda"
  /\ \E o \in Outcomes :
       /\ calls' = Settled(o)
       /\ Set(Route2AfterOda(After(o), o, Failure))
       /\ inFlight' = Launch(inFlight, pending, pending')
  /\ UNCHANGED <<routing, apsAvailable, inputPath, requested, filesBefore, server, adapter, batch, limiter>>

\* Route 4: blenderConvert settles.
Route4_BlenderDone ==
  /\ pc = "r4_blender"
  /\ \E o \in Outcomes :
       /\ calls' = Settled(o)
       /\ Set(Route4AfterBlender(After(o), o, Failure))
       /\ inFlight' = Launch(inFlight, pending, pending')
  /\ UNCHANGED <<routing, apsAvailable, inputPath, requested, filesBefore, server, adapter, batch, limiter>>

\* Route 5a: convertCadToCad settles.
Route5a_CadToCadDone ==
  /\ pc = "r5a_cad"
  /\ \E o \in FreecadOutcomes :
       /\ calls' = Settled(o)
       /\ Set(Route5aAfterCadToCad(After(o), o, Failure))
       /\ inFlight' = Launch(inFlight, pending, pending')
  /\ UNCHANGED <<routing, apsAvailable, inputPath, requested, filesBefore, server, adapter, batch, limiter>>

\* Route 5a: convertWithFreecad settles.
Route5a_FreecadDone ==
  /\ pc = "r5a_freecad"
  /\ \E o \in FreecadOutcomes :
       /\ calls' = Settled(o)
       /\ Set(Route5aAfterFreecad(After(o), o, Failure))
       /\ inFlight' = Launch(inFlight, pending, pending')
  /\ UNCHANGED <<routing, apsAvailable, inputPath, requested, filesBefore, server, adapter, batch, limiter>>

\* Route 5b: blenderConvert to the temporary STL settles.
Route5b_BlenderDone ==
  /\ pc = "r5b_blender"
  /\ \E o \in Outcomes :
       /\ calls' = Settled(o)
       /\ Set(Route5bAfterBlender(After(o), o, Failure))
       /\ inFlight' = Launch(inFlight, pending, pending')
  /\ UNCHANGED <<routing, apsAvailable, inputPath, requested, filesBefore, server, adapter, batch, limiter>>

\* Route 5b: convertMeshToStep to the output settles.
Route5b_MeshToStepDone ==
  /\ pc = "r5b_step"
  /\ \E o \in FreecadOutcomes :
       /\ calls' = Settled(o)
       /\ Set(Route5bAfterMeshToStep(After(o), o, Failure))
       /\ inFlight' = Launch(inFlight, pending, pending')
  /\ UNCHANGED <<routing, apsAvailable, inputPath, requested, filesBefore, server, adapter, batch, limiter>>

\* Route 5b: convertMeshToStep to the temporary STEP settles.
Route5b_IgesStepDone ==
  /\ pc = "r5b_iges_step"
  /\ \E o \in FreecadOutcomes :
       /\ calls' = Settled(o)
       /\ Set(Route5bAfterIgesStep(After(o), o, Failure))
       /\ inFlight' = Launch(inFlight, pending, pending')
  /\ UNCHANGED <<routing, apsAvailable, inputPath, requested, filesBefore, server, adapter, batch, limiter>>

\* Route 5b: convertCadToCad of the temporary STEP settles.
Route5b_IgesCadDone ==
  /\ pc = "r5b_iges_cad"
  /\ \E o \in FreecadOutcomes :
       /\ calls' = Settled(o)
       /\ Set(Route5bAfterIgesCad(After(o), o, Failure))
       /\ inFlight' = Launch(inFlight, pending, pending')
  /\ UNCHANGED <<routing, apsAvailable, inputPath, requested, filesBefore, server, adapter, batch, limiter>>

\* CAD chain: blenderConvert settles.
Route7_BlenderDone ==
  /\ pc = "r7_blender"
  /\ \E o \in Outcomes :
       /\ calls' = Settled(o)
       /\ Set(Route7AfterBlender(After(o), o, Failure))
       /\ inFlight' = Launch(inFlight, pending, pending')
  /\ UNCHANGED <<routing, apsAvailable, inputPath, requested, filesBefore, server, adapter, batch, limiter>>

\* CAD chain: convertWithFreecad settles.
Route7_FreecadDone ==
  /\ pc = "r7_freecad"
  /\ \E o \in FreecadOutcomes :
       /\ calls' = Settled(o)
       /\ Set(Route7AfterFreecad(After(o), o, Failure))
       /\ inFlight' = Launch(inFlight, pending, pending')
  /\ UNCHANGED <<routing, apsAvailable, inputPath, requested, filesBefore, server, adapter, batch, limiter>>

\* Route 3: the direct apsConvert settles.
Route3_DirectDone ==
  /\ pc = "r3_direct"
  /\ \E o \in Outcomes, h \in BOOLEAN, c \in BOOLEAN :
       /\ ApsMetadata(o, h, c)
       /\ calls' = Settled(o)
       /\ Set(Route3AfterDirect(AfterAps(o, h, c), o, Failure))
       /\ inFlight' = Launch(inFlight, pending, pending')
  /\ UNCHANGED <<routing, apsAvailable, inputPath, requested, filesBefore, server, adapter, batch, limiter>>

\* Route 3: apsConvert to the temporary OBJ settles.
Route3_ApsDone ==
  /\ pc = "r3_aps"
  /\ \E o \in Outcomes, h \in BOOLEAN, c \in BOOLEAN :
       /\ ApsMetadata(o, h, c)
       /\ calls' = Settled(o)
       /\ Set(Route3AfterAps(AfterAps(o, h, c), o, Failure))
       /\ inFlight' = Launch(inFlight, pending, pending')
  /\ UNCHANGED <<routing, apsAvailable, inputPath, requested, filesBefore, server, adapter, batch, limiter>>

\* CAD chain: apsConvert after FreeCAD failed settles.
Route7_InnerApsDone ==
  /\ pc = "r7_aps_in"
  /\ \E o \in Outcomes, h \in BOOLEAN, c \in BOOLEAN :
       /\ ApsMetadata(o, h, c)
       /\ calls' = Settled(o)
       /\ Set(Route7AfterInnerAps(AfterAps(o, h, c), o, Failure))
       /\ inFlight' = Launch(inFlight, pending, pending')
  /\ UNCHANGED <<routing, apsAvailable, inputPath, requested, filesBefore, server, adapter, batch, limiter>>

\* CAD chain: apsConvert without FreeCAD settles.
Route7_OuterApsDone ==
  /\ pc = "r7_aps_out"
  /\ \E o \in Outcomes, h \in BOOLEAN, c \in BOOLEAN :
       /\ ApsMetadata(o, h, c)
       /\ calls' = Settled(o)
       /\ Set(Route7AfterOuterAps(AfterAps(o, h, c), o, Failure))
       /\ inFlight' = Launch(inFlight, pending, pending')
  /\ UNCHANGED <<routing, apsAvailable, inputPath, requested, filesBefore, server, adapter, batch, limiter>>

\* Fallback chain: assimpConvert settles.
Fb_AssimpDone ==
  /\ pc = "fb_assimp"
  /\ \E o \in Outcomes :
       /\ calls' = Settled(o)
       /\ Set(FbAfterAssimp(After(o), o))
       /\ inFlight' = Launch(inFlight, pending, pending')
  /\ UNCHANGED <<routing, apsAvailable, inputPath, requested, filesBefore, server, adapter, batch, limiter>>

\* Fallback chain: blenderConvert settles.
Fb_BlenderDone ==
  /\ pc = "fb_blender"
  /\ \E o \in Outcomes :
       /\ calls' = Settled(o)
       /\ Set(FbAfterBlender(After(o), o))
       /\ inFlight' = Launch(inFlight, pending, pending')
  /\ UNCHANGED <<routing, apsAvailable, inputPath, requested, filesBefore, server, adapter, batch, limiter>>

\* Fallback chain: blenderConvert of the APS OBJ settles.
Fb_ApsBlenderDone ==
  /\ pc = "fb_aps_blender"
  /\ \E o \in Outcomes :
       /\ calls' = Settled(o)
       /\ Set(FbAfterApsBlender(After(o), o))
       /\ inFlight' = Launch(inFlight, pending, pending')
  /\ UNCHANGED <<routing, apsAvailable, inputPath, requested, filesBefore, server, adapter, batch, limiter>>

\* Fallback chain: apsConvert to the temporary OBJ settles.
Fb_ApsDone ==
  /\ pc = "fb_aps"
  /\ \E o \in Outcomes, h \in BOOLEAN, c \in BOOLEAN :
       /\ ApsMetadata(o, h, c)
       /\ calls' = Settled(o)
       /\ Set(FbAfterAps(AfterAps(o, h, c), o))
       /\ inFlight' = Launch(inFlight, pending, pending')
  /\ UNCHANGED <<routing, apsAvailable, inputPath, requested, filesBefore, server, adapter, batch, limiter>>

Next ==
  \/ Call
  \/ Route1_OdaDone
  \/ Route2_BlenderDone
  \/ Route2_OdaDone
  \/ Route3_DirectDone
  \/ Route3_ApsDone
  \/ Route4_BlenderDone
  \/ Route5a_CadToCadDone
  \/ Route5a_FreecadDone
  \/ Route5b_BlenderDone
  \/ Route5b_MeshToStepDone
  \/ Route5b_IgesStepDone
  \/ Route5b_IgesCadDone
  \/ Route7_BlenderDone
  \/ Route7_FreecadDone
  \/ Route7_InnerApsDone
  \/ Route7_OuterApsDone
  \/ Fb_AssimpDone
  \/ Fb_BlenderDone
  \/ Fb_ApsDone
  \/ Fb_ApsBlenderDone

Spec == Init /\ [][Next]_vars

\* The server built with the BrepCad-aware routing module: its CAD chain
\* (route 7) is never entered, so its steps are not part of the relation.
InitBrep == Init /\ routing = "brep"

NextBrep ==
  \/ Call
  \/ Route1_OdaDone
  \/ Route2_BlenderDone
  \/ Route2_OdaDone
  \/ Route3_DirectDone
  \/ Route3_ApsDone
  \/ Route4_BlenderDone
  \/ Route5a_CadToCadDone
  \/ Route5a_FreecadDone
  \/ Route5b_BlenderDone
  \/ Route5b_MeshToStepDone
  \/ Route5b_IgesStepDone
  \/ Route5b_IgesCadDone
  \/ Fb_AssimpDone
  \/ Fb_BlenderDone
  \/ Fb_ApsDone
  \/ Fb_ApsBlenderDone

SpecBrep == InitBrep /\ [][NextBrep]_vars

\* Every external tool invocation of a started call terminates.
SpecBrepLive == SpecBrep /\ WF_vars(pc # "idle" /\ NextBrep)

\* The server built with the older routing module, which has no route 5.
InitLegacy == Init /\ routing = "legacy"

NextLegacy ==
  \/ Call
  \/ Route1_OdaDone
  \/ Route2_BlenderDone
  \/ Route2_OdaDone
  \/ Route3_DirectDone
  \/ Route3_ApsDone
  \/ Route4_BlenderDone
  \/ Route7_BlenderDone
  \/ Route7_FreecadDone
  \/ Route7_InnerApsDone
  \/ Route7_OuterApsDone
  \/ Fb_AssimpDone
  \/ Fb_BlenderDone
  \/ Fb_ApsDone
  \/ Fb_ApsBlenderDone

SpecLegacy == InitLegacy /\ [][NextLegacy]_vars

-----------------------------------------------------------------------------
(* Concurrent requests: temporary names and the FreeCAD limiter            *)

\* config.maxConcurrentBlender (MAX_CONCURRENT_BLENDER, default 2): the
\* concurrency the FreeCAD provider creates its limiter with.
maxConcurrentBlender == 2

\* Last value of the millisecond clock.
MaxNow == 1

\* `temp_${Date.now()}.<ext>` taken when the clock shows t.
Temp(t, ext) == P("temp_" \o ToString(t), ext)

\* The routes of the BrepCad-aware module a concurrent request takes here:
\* X -> dwg, STEP/IGES -> STEP/IGES, STEP/IGES -> mesh, mesh -> STEP.
Kinds == {"r2", "r5a_cad", "r5a_mesh", "r5b_step"}

\* The variables of the single call followed in the first part.
call ==
  <<routing, apsAvailable, inputPath, files, hierarchy, colonHead, pc, pending,
    calls, probes, requested, outputFormat, outputPath, filesBefore, blenderErr,
    fbIn, fbOut, fbRet, result, inFlight>>

\* limit(fn) of p-limit: fn runs at once while fewer than the configured
\* number are running, else it waits in the queue.
pLimitRun(l, r) ==
  IF Cardinality(l.active) < maxConcurrentBlender
  THEN [l EXCEPT !.active = @ \cup {r}]
  ELSE [l EXCEPT !.queue = Append(@, r)]

\* p-limit when the function of r has settled: its slot goes to the head of
\* the queue.
pLimitNext(l, r) ==
  LET active == l.active \ {r}
  IN  IF l.queue # <<>> /\ Cardinality(active) < maxConcurrentBlender
      THEN [active |-> active \cup {Head(l.queue)}, queue |-> Tail(l.queue)]
      ELSE [active |-> active, queue |-> l.queue]

\* convertCadToCad spawning FreeCAD without going through the limiter.
freecadLimited_CadToCadDirect(l, r, fn) ==
  IF fn = "convertCadToCad"
  THEN [l EXCEPT !.active = @ \cup {r}]
  ELSE pLimitRun(l, r)

\* return freecadLimit(async () => { ... }) of convertWithFreecad,
\* convertMeshToStep and convertCadToCad: one limiter for the three.
freecadLimited(l, r, fn) == pLimitRun(l, r)

Job(p, kind, temp) == [pc |-> p, kind |-> kind, temp |-> temp]

JobDone == Job("done", "none", NoPath)

\* The clock advances by a millisecond.
Tick ==
  /\ now < MaxNow
  /\ now' = now + 1
  /\ UNCHANGED <<jobs, freecadLimit, dir, call, adapter, batch, limiter>>

\* A caller starts convertFile: the route computes its temporary name from
\* Date.now() and makes its first adapter call.
Request ==
  /\ \E r \in Requests, kind \in Kinds :
       /\ jobs[r].pc = "idle"
       /\ CASE kind = "r2" ->
                 /\ jobs' = [jobs EXCEPT ![r] = Job("blender", kind, Temp(now, "dxf"))]
                 /\ UNCHANGED freecadLimit
            [] kind = "r5b_step" ->
                 /\ jobs' = [jobs EXCEPT ![r] = Job("blender", kind, Temp(now, "stl"))]
                 /\ UNCHANGED freecadLimit
            [] kind = "r5a_mesh" ->
                 /\ jobs' = [jobs EXCEPT ![r] = Job("freecad", kind, Temp(now, "stl"))]
                 /\ freecadLimit' = freecadLimited(freecadLimit, r, "convertWithFreecad")
            [] OTHER ->
                 /\ jobs' = [jobs EXCEPT ![r] = Job("freecad", kind, NoPath)]
                 /\ freecadLimit' = freecadLimited(freecadLimit, r, "convertCadToCad")
  /\ UNCHANGED <<now, dir, call, adapter, batch, limiter>>

\* blenderConvert(inputPath, temp) of a request settles: on success the
\* temporary file is there and the next stage starts, on failure the finally
\* block removes the temporary name.
BlenderExit ==
  /\ \E r \in Requests, o \in Outcomes :
       /\ jobs[r].pc = "blender"
       /\ IF o = "ok"
          THEN /\ dir' = Write(dir, jobs[r].temp, r)
               /\ IF jobs[r].kind = "r2"
                  THEN /\ jobs' = [jobs EXCEPT ![r].pc = "oda"]
                       /\ UNCHANGED freecadLimit
                  ELSE /\ jobs' = [jobs EXCEPT ![r].pc = "freecad"]
                       /\ freecadLimit' = freecadLimited(freecadLimit, r, "convertMeshToStep")
          ELSE /\ dir' = Remove(dir, jobs[r].temp)
               /\ jobs' = [jobs EXCEPT ![r] = JobDone]
               /\ UNCHANGED freecadLimit
  /\ UNCHANGED <<now, call, adapter, batch, limiter>>

\* odaConvert(temp, 'DWG') of a request settles; the finally block removes
\* the temporary DXF.
OdaExit ==
  /\ \E r \in Requests :
       /\ jobs[r].pc = "oda"
       /\ dir' = Remove(dir, jobs[r].temp)
       /\ jobs' = [jobs EXCEPT ![r] = JobDone]
  /\ UNCHANGED <<now, freecadLimit, call, adapter, batch, limiter>>

\* The same with a rejected invocation keeping its slot.
FreecadExit_KeepSlotOnFailure ==
  /\ \E r \in freecadLimit.active, o \in FreecadOutcomes :
       /\ jobs[r].pc = "freecad"
       /\ freecadLimit' = IF o = "ok" THEN pLimitNext(freecadLimit, r) ELSE freecadLimit
       /\ IF jobs[r].kind = "r5a_mesh" /\ o = "ok"
          THEN /\ dir' = Write(dir, jobs[r].temp, r)
               /\ jobs' = [jobs EXCEPT ![r].pc = "chain"]
          ELSE /\ dir' = Remove(dir, jobs[r].temp)
               /\ jobs' = [jobs EXCEPT ![r] = JobDone]
  /\ UNCHANGED <<now, call, adapter, batch, limiter>>

\* The FreeCAD process of a running request closes: the limiter slot is
\* released; STEP/IGES -> mesh moves the STL to its temporary name and goes
\* on with the fallback chain, the other routes clean up and end.
FreecadExit ==
  /\ \E r \in freecadLimit.active, o \in FreecadOutcomes :
       /\ jobs[r].pc = "freecad"
       /\ freecadLimit' = pLimitNext(freecadLimit, r)
       /\ IF jobs[r].kind = "r5a_mesh" /\ o = "ok"
          THEN /\ dir' = Write(dir, jobs[r].temp, r)
               /\ jobs' = [jobs EXCEPT ![r].pc = "chain"]
          ELSE /\ dir' = Remove(dir, jobs[r].temp)
               /\ jobs' = [jobs EXCEPT ![r] = JobDone]
  /\ UNCHANGED <<now, call, adapter, batch, limiter>>

\* convertWithFullFallback(temp, outputPath) of a request settles; the
\* finally block removes the temporary STL.
ChainExit ==
  /\ \E r \in Requests :
       /\ jobs[r].pc = "chain"
       /\ dir' = Remove(dir, jobs[r].temp)
       /\ jobs' = [jobs EXCEPT ![r] = JobDone]
  /\ UNCHANGED <<now, freecadLimit, call, adapter, batch, limiter>>

InitConcurrent ==
  /\ Init
  /\ routing = "brep"
  /\ ~apsAvailable
  /\ inputPath = P("model", "obj")
  /\ hierarchy = {}
  /\ colonHead = {}

NextConcurrent ==
  \/ Tick
  \/ Request
  \/ BlenderExit
  \/ OdaExit
  \/ FreecadExit
  \/ ChainExit

SpecConcurrent == InitConcurrent /\ [][NextConcurrent]_vars

\* Every FreeCAD process exits or is killed by the spawn timeout.
SpecConcurrentLive == SpecConcurrent /\ WF_vars(FreecadExit)

-----------------------------------------------------------------------------
(* The FreeCAD provider: one adapter call and its child process            *)

\* Number of 'error' events the child process emits at most.
MaxErrorEvents == 1

\* What is at a path: nothing, a file of size 0, a file with data.
FileStates == {"missing", "empty", "data"}

\* The adapter calls followed: STEP -> STL, STL -> STEP, STEP -> IGES.
AdapterCalls ==
  {convertWithFreecad(P("model", "step"), "stl"),
   convertMeshToStep(P("temp", "stl"), P("model", "step")),
   convertCadToCad(P("model", "step"), P("model", "iges"))}

\* resolve(v) / reject(e) of a promise: the first call settles it, later
\* calls have no effect.
settle(p, state, path, err) ==
  IF p.state = "pending"
  THEN [state |-> state, outputPath |-> path, err |-> err,
        settles |-> p.settles + 1]
  ELSE p

\* proc.on('error', ...): reject(new ConversionError(...))
onError(p) ==
  settle(p, "rejected", NoPath, ConversionError("FreeCAD process error", {}, {}))

\* proc.on('close', (code) => ...): reject when code !== 0, else resolve()
onClose(p, code) ==
  IF code # "0"
  THEN settle(p, "rejected", NoPath,
              ConversionError("FreeCAD conversion failed with exit code", {}, {}))
  ELSE settle(p, "fulfilled", NoPath, NoErr)

\* The adapter function at `await runFreecad(...)` when the promise settles:
\* a rejection leaves the function, and the limiter, as the rejection of the
\* call; a resolution goes on to `await fs.pathExists(outputPath)`.
AfterRun(before, after) ==
  IF before.state # "pending" \/ fcCall.pc # "runFreecad"
  THEN UNCHANGED <<fcCall, fcResult>>
  ELSE IF after.state = "rejected"
  THEN /\ fcCall' = [fcCall EXCEPT !.pc = "thrown"]
       /\ fcResult' = settle(fcResult, "rejected", NoPath, after.err)
  ELSE /\ fcCall' = [fcCall EXCEPT !.pc = "pathExists"]
       /\ UNCHANGED fcResult

\* The same without the test of the size.
AfterStat_NoSizeCheck(c, r, f) ==
  [call |-> [c EXCEPT !.pc = "returned"],
   result |-> settle(r, "fulfilled", c.dst, NoErr)]

\* const stats = await fs.stat(outputPath);
\* if (stats.size === 0) throw new ConversionError(...);
\* return { outputPath, duration }
AfterStat(c, r, f) ==
  IF f = "empty"
  THEN [call |-> [c EXCEPT !.pc = "thrown"],
        result |-> settle(r, "rejected", NoPath,
                          ConversionError("produced empty output file", {}, {}))]
  ELSE [call |-> [c EXCEPT !.pc = "returned"],
        result |-> settle(r, "fulfilled", c.dst, NoErr)]

\* The adapter is called: the limiter runs its function, which spawns the
\* process.  The output path may hold a file already.
FreecadCall ==
  /\ fcCall.pc = "idle"
  /\ \E c \in AdapterCalls, f \in FileStates :
       /\ fcCall' = [fn |-> c.fn, pc |-> "runFreecad", src |-> c.src, dst |-> c.dst]
       /\ outFile' = f
  /\ proc' = [NoProc EXCEPT !.state = "running"]
  /\ UNCHANGED <<runPromise, fcResult, call, server, batch, limiter>>

\* The script writes, truncates or removes the output file.
ProcessWrite ==
  /\ proc.state = "running"
  /\ \E f \in FileStates \ {outFile} : outFile' = f
  /\ UNCHANGED <<fcCall, proc, runPromise, fcResult, call, server, batch, limiter>>

\* spawn(..., { timeout: config.conversionTimeout }): the timeout elapses and
\* the process is sent the kill signal.
ProcessTimeout ==
  /\ proc.state = "running"
  /\ ~proc.killed
  /\ proc' = [proc EXCEPT !.killed = TRUE]
  /\ UNCHANGED <<fcCall, runPromise, outFile, fcResult, call, server, batch, limiter>>

\* The 'error' event: the process could not be spawned or could not be killed.
ProcessError ==
  /\ proc.state = "running"
  /\ proc.errors < MaxErrorEvents
  /\ proc' = [proc EXCEPT !.errors = @ + 1]
  /\ runPromise' = onError(runPromise)
  /\ AfterRun(runPromise, runPromise')
  /\ UNCHANGED <<outFile, call, server, batch, limiter>>

\* The 'close' event: the process has ended and its streams are closed.  Its
\* code is the exit status; null when a signal ended the process (the kill of
\* the spawn timeout); the negated errno when it could not be spawned.
ProcessClose ==
  /\ proc.state = "running"
  /\ \E code \in {"0", "1", "null", "-2"} :
       /\ code = "-2" => proc.errors > 0
       /\ proc' = [proc EXCEPT !.state = "closed", !.code = code]
       /\ runPromise' = onClose(runPromise, code)
  /\ AfterRun(runPromise, runPromise')
  /\ UNCHANGED <<outFile, call, server, batch, limiter>>

\* if (!await fs.pathExists(outputPath)) throw new ConversionError(...)
PathExistsDone ==
  /\ fcCall.pc = "pathExists"
  /\ IF outFile = "missing"
     THEN /\ fcCall' = [fcCall EXCEPT !.pc = "thrown"]
          /\ fcResult' = settle(fcResult, "rejected", NoPath,
                                ConversionError("produced no output file", {}, {}))
     ELSE /\ fcCall' = [fcCall EXCEPT !.pc = "stat"]
          /\ UNCHANGED fcResult
  /\ UNCHANGED <<proc, runPromise, outFile, call, server, batch, limiter>>

StatDone ==
  /\ fcCall.pc = "stat"
  /\ LET n == AfterStat(fcCall, fcResult, outFile)
     IN  fcCall' = n.call /\ fcResult' = n.result
  /\ UNCHANGED <<proc, runPromise, outFile, call, server, batch, limiter>>

NextFreecad ==
  \/ FreecadCall
  \/ ProcessWrite
  \/ ProcessTimeout
  \/ ProcessError
  \/ ProcessClose
  \/ PathExistsDone
  \/ StatDone

\* The spawn timeout ends a process that does not end by itself, and the
\* file system answers: the close event and the two checks are not put off
\* for ever.
SpecFreecad ==
  /\ InitConcurrent
  /\ [][NextFreecad]_vars
  /\ WF_vars(ProcessClose)
  /\ WF_vars(PathExistsDone)
  /\ WF_vars(StatDone)

-----------------------------------------------------------------------------
(* The batch job manager: processBatchJob and cleanupJob on one job        *)

\* Number of files of the job at most.
MaxFiles == 2

\* The fields downloadUrl, outputPath, error and tool of a file of the job are
\* followed as "is not null".

\* The files of the job on disk: the upload of file i, the file convertFile
\* wrote for it, the download file that one is renamed to.
Upload(i) == [kind |-> "input", file |-> i]

Converted(i) == [kind |-> "converted", file |-> i]

Download(i) == [kind |-> "download", file |-> i]

Run(at, i, src) == [pc |-> at, file |-> i, src |-> src]

\* cleanupJob has run to its end at least once.
CleanupDone == \E c \in Cleaners : cleaners[c].pc = "done"

\* The loop ending at a file that is not pending or that follows a failed one.
Loop_BreakOnError(j, d, k) ==
  IF /\ k <= Len(j.files)
     /\ j.files[k].status = "pending"
     /\ k > 1 => j.files[k - 1].status # "error"
  THEN [job |-> [j EXCEPT !.files[k].status = "converting"],
        run |-> Run("convertFile", k, Upload(k) \in d)]
  ELSE [job |-> [j EXCEPT !.isProcessing = FALSE], run |-> Run("done", 0, FALSE)]

\* The loop of processBatchJob from index k up to its next await: the next
\* pending file becomes 'converting' and convertFile is called, or the loop
\* ends and isProcessing is reset.
Loop(j, d, k) ==
  LET S == {n \in k..Len(j.files) : j.files[n].status = "pending"}
      i == IF S = {} THEN 0 ELSE CHOOSE n \in S : \A m \in S : n <= m
  IN  IF i = 0
      THEN [job |-> [j EXCEPT !.isProcessing = FALSE], run |-> Run("done", 0, FALSE)]
      ELSE [job |-> [j EXCEPT !.files[i].status = "converting"],
            run |-> Run("convertFile", i, Upload(i) \in d)]

\* The same without the isProcessing test.
processBatchJob_NoGuard(m, j, d) ==
  IF "job" \notin m
  THEN [job |-> j, run |-> Run("notFound", 0, FALSE)]
  ELSE Loop([j EXCEPT !.isProcessing = TRUE], d, 1)

\* processBatchJob(jobId) up to its first await.
processBatchJob(m, j, d) ==
  IF "job" \notin m
  THEN [job |-> j, run |-> Run("notFound", 0, FALSE)]
  ELSE IF j.isProcessing
  THEN [job |-> j, run |-> Run("busy", 0, FALSE)]
  ELSE Loop([j EXCEPT !.isProcessing = TRUE], d, 1)

\* The log of convertFile calls after a segment of processBatchJob.
Log(run) ==
  IF run.pc = "convertFile"
  THEN Append(started, [file |-> run.file, late |-> CleanupDone])
  ELSE started

\* cleanupJob from file k on up to its next await; after the last file
\* jobs.delete(jobId).
CleanFrom(m, j, k) ==
  IF k > Len(j.files)
  THEN [jobs |-> m \ {"job"}, run |-> Run("done", 0, FALSE)]
  ELSE IF j.files[k].outputPath
  THEN [jobs |-> m, run |-> Run("removeOutput", k, FALSE)]
  ELSE [jobs |-> m, run |-> Run("removeInput", k, FALSE)]

\* POST /convert/batch: the uploads are on disk, the job is put in the map.
CreateBatchJob ==
  /\ job = NoBatchJob
  /\ \E n \in 1..MaxFiles :
       /\ job' = [isProcessing |-> FALSE, completedCount |-> 0, totalCount |-> n,
                  files |-> [i \in 1..n |->
                              [status |-> "pending", downloadUrl |-> FALSE,
                               outputPath |-> FALSE, error |-> FALSE,
                               tool |-> FALSE]]]
       /\ disk' = {Upload(i) : i \in 1..n}
  /\ batchJobs' = {"job"}
  /\ UNCHANGED <<workers, cleaners, started, call, server, adapter, limiter>>

ProcessBatchJob(w) ==
  /\ job # NoBatchJob
  /\ workers[w].pc = "idle"
  /\ LET n == processBatchJob(batchJobs, job, disk)
     IN  /\ job' = n.job
         /\ workers' = [workers EXCEPT ![w] = n.run]
         /\ started' = Log(n.run)
  /\ UNCHANGED <<batchJobs, disk, cleaners, call, server, adapter, limiter>>

\* The same with a failure leaving the file 'pending' for another run.
ConvertFileDone_Retry(w) ==
  /\ workers[w].pc = "convertFile"
  /\ LET i == workers[w].file
     IN  \E outcome \in Outcomes :
           /\ outcome = "ok" => workers[w].src
           /\ IF outcome = "ok"
              THEN /\ disk' = disk \cup {Converted(i)}
                   /\ workers' = [workers EXCEPT ![w].pc = "move"]
                   /\ UNCHANGED job
              ELSE /\ job' = [job EXCEPT !.files[i].status = "pending",
                                         !.files[i].error = TRUE]
                   /\ workers' = [workers EXCEPT ![w].pc = "removeInput"]
                   /\ UNCHANGED disk
  /\ UNCHANGED <<batchJobs, cleaners, started, call, server, adapter, limiter>>

\* `await convertFile(file.inputPath, file.outputFormat)` settles: with a
\* result whose output file is on disk, or with an error (the only outcome
\* when the upload was gone at the call).
ConvertFileDone(w) ==
  /\ workers[w].pc = "convertFile"
  /\ LET i == workers[w].file
     IN  \E outcome \in Outcomes :
           /\ outcome = "ok" => workers[w].src
           /\ IF outcome = "ok"
              THEN /\ disk' = disk \cup {Converted(i)}
                   /\ workers' = [workers EXCEPT ![w].pc = "move"]
                   /\ UNCHANGED job
              ELSE /\ job' = [job EXCEPT !.files[i].status = "error",
                                         !.files[i].error = TRUE,
                                         !.completedCount = @ + 1]
                   /\ workers' = [workers EXCEPT ![w].pc = "removeInput"]
                   /\ UNCHANGED disk
  /\ UNCHANGED <<batchJobs, cleaners, started, call, server, adapter, limiter>>

\* The same without `job.completedCount++`.
MoveDone_NoCount(w) ==
  /\ workers[w].pc = "move"
  /\ LET i == workers[w].file
     IN  /\ disk' = (disk \ {Converted(i)}) \cup {Download(i)}
         /\ job' = [job EXCEPT !.files[i].status = "completed",
                               !.files[i].downloadUrl = TRUE,
                               !.files[i].outputPath = TRUE,
                               !.files[i].tool = TRUE]
  /\ workers' = [workers EXCEPT ![w].pc = "removeInput"]
  /\ UNCHANGED <<batchJobs, cleaners, started, call, server, adapter, limiter>>

\* `await fs.move(result.outputPath, finalOutputPath)` settles; the file is
\* marked 'completed' with its outputPath.
MoveDone(w) ==
  /\ workers[w].pc = "move"
  /\ LET i == workers[w].file
     IN  /\ disk' = (disk \ {Converted(i)}) \cup {Download(i)}
         /\ job' = [job EXCEPT !.files[i].status = "completed",
                               !.files[i].downloadUrl = TRUE,
                               !.files[i].outputPath = TRUE,
                               !.files[i].tool = TRUE,
                               !.completedCount = @ + 1]
  /\ workers' = [workers EXCEPT ![w].pc = "removeInput"]
  /\ UNCHANGED <<batchJobs, cleaners, started, call, server, adapter, limiter>>

\* `await fs.remove(file.inputPath)` settles and the loop goes on.
RemoveInputDone(w) ==
  /\ workers[w].pc = "removeInput"
  /\ disk' = disk \ {Upload(workers[w].file)}
  /\ LET n == Loop(job, disk', workers[w].file + 1)
     IN  /\ job' = n.job
         /\ workers' = [workers EXCEPT ![w] = n.run]
         /\ started' = Log(n.run)
  /\ UNCHANGED <<batchJobs, cleaners, call, server, adapter, limiter>>

\* DELETE /convert/batch/:jobId, or the timer createBatchJob set.
CleanupJob(c) ==
  /\ job # NoBatchJob
  /\ cleaners[c].pc = "idle"
  /\ LET n == IF "job" \notin batchJobs
              THEN [jobs |-> batchJobs, run |-> Run("notFound", 0, FALSE)]
              ELSE CleanFrom(batchJobs, job, 1)
     IN  /\ batchJobs' = n.jobs
         /\ cleaners' = [cleaners EXCEPT ![c] = n.run]
  /\ UNCHANGED <<job, disk, workers, started, call, server, adapter, limiter>>

\* `await fs.remove(file.outputPath)` of cleanupJob settles.
CleanRemoveOutputDone(c) ==
  /\ cleaners[c].pc = "removeOutput"
  /\ disk' = disk \ {Download(cleaners[c].file)}
  /\ cleaners' = [cleaners EXCEPT ![c].pc = "removeInput"]
  /\ UNCHANGED <<batchJobs, job, workers, started, call, server, adapter, limiter>>

\* `await fs.remove(file.inputPath)` of cleanupJob settles and its loop goes on.
CleanRemoveInputDone(c) ==
  /\ cleaners[c].pc = "removeInput"
  /\ disk' = disk \ {Upload(cleaners[c].file)}
  /\ LET n == CleanFrom(batchJobs, job, cleaners[c].file + 1)
     IN  /\ batchJobs' = n.jobs
         /\ cleaners' = [cleaners EXCEPT ![c] = n.run]
  /\ UNCHANGED <<job, workers, started, call, server, adapter, limiter>>

NextBatch ==
  \/ CreateBatchJob
  \/ \E w \in Invocations : ProcessBatchJob(w)
  \/ \E w \in Invocations : ConvertFileDone(w)
  \/ \E w \in Invocations : MoveDone(w)
  \/ \E w \in Invocations : RemoveInputDone(w)
  \/ \E c \in Cleaners : CleanupJob(c)
  \/ \E c \in Cleaners : CleanRemoveOutputDone(c)
  \/ \E c \in Cleaners : CleanRemoveInputDone(c)

SpecBatch == InitConcurrent /\ [][NextBatch]_vars

\* Every convertFile call and every file system call of processBatchJob
\* settles.
SpecBatchLive ==
  /\ SpecBatch
  /\ \A w \in Invocations :
       /\ WF_vars(ConvertFileDone(w))
       /\ WF_vars(MoveDone(w))
       /\ WF_vars(RemoveInputDone(w))

-----------------------------------------------------------------------------
(* The rate limiter: the onRequest hook on the requests of one client      *)

\* defaultOptions and conversionOptions.
windowMs == 60000

defaultMaxRequests == 100

conversionMaxRequests == 10

\* The clock moves by one of TimeSteps ms, within a window or past its end,
\* up to MaxClock.
TimeSteps == {40000, 70000}

MaxClock == 70000

\* Requests beyond its limit a counter is followed for.
MaxOver == 1

\* Requests with a query string the client sends at most.
MaxQueryRequests == 1

\* The requests of the client: method, path of the route, query string.
Methods == {"GET", "POST"}

Paths == {"/health", "/api/convert", "/api/formats"}

Queries == {"", "?t=1"}

\* The kind of a request by the route that serves it.
KindOf(method, path) ==
  IF path \in {"/health", "/ready", "/metrics"} THEN "health"
  ELSE IF path = "/api/convert" /\ method = "POST" THEN "convert"
  ELSE "general"

\* The onRequest hook of rateLimitPlugin; request.url is the path with the
\* query string; retryAfter says whether the Retry-After header is set.
onRequest(store, t, method, path, query) ==
  LET url == path \o query
  IN  IF url = "/health" \/ url = "/ready" \/ url = "/metrics"
      THEN [store |-> store, status |-> 200, retryAfter |-> FALSE, counted |-> FALSE]
      ELSE
        LET isConversion == url = "/api/convert" /\ method = "POST"
            maxRequests == IF isConversion THEN conversionMaxRequests ELSE defaultMaxRequests
            key == IF isConversion THEN "ip:convert" ELSE "ip:general"
            fresh == key \notin DOMAIN store \/ t > store[key].resetTime
            entry == IF fresh THEN [count |-> 0, resetTime |-> t + windowMs] ELSE store[key]
            counted == [entry EXCEPT !.count = @ + 1]
        IN  [store |-> Write(store, key, counted),
             status |-> IF counted.count > maxRequests THEN 429 ELSE 200,
             retryAfter |-> counted.count > maxRequests,
             counted |-> TRUE]

\* The window of a kind of request after a request of that kind at time t:
\* the first request after the reset time of the previous window opens a new
\* one; a request that is let through is counted in its window.
Window(w, t, through) ==
  LET cur == IF t > w.resetTime THEN [resetTime |-> t + windowMs, passed |-> 0] ELSE w
  IN  [cur EXCEPT !.passed = IF through THEN @ + 1 ELSE @]

\* A request of the client arrives and goes through the hook.
HttpRequest ==
  /\ \E method \in Methods, path \in Paths, query \in Queries :
       LET kind == KindOf(method, path)
           r == onRequest(rateLimitStore, clock, method, path, query)
       IN  /\ query # "" => queried < MaxQueryRequests
           /\ queried' = IF query # "" THEN queried + 1 ELSE queried
           /\ \A k \in DOMAIN r.store :
                r.store[k].count <= (IF k = "ip:convert" THEN conversionMaxRequests
                                                        ELSE defaultMaxRequests) + MaxOver
           /\ rateLimitStore' = r.store
           /\ reply' = [kind |-> kind, status |-> r.status,
                        retryAfter |-> r.retryAfter, counted |-> r.counted]
           /\ windows' = IF kind = "health" THEN windows
                         ELSE [windows EXCEPT ![kind] = Window(@, clock, r.status = 200)]
  /\ UNCHANGED <<clock, call, server, adapter, batch>>

\* Time passes; a window whose reset time has passed is over.
ClockAdvance ==
  /\ \E step \in TimeSteps :
       /\ clock + step <= MaxClock
       /\ clock' = clock + step
  /\ windows' = [k \in DOMAIN windows |->
                   IF clock' > windows[k].resetTime
                   THEN [resetTime |-> -1, passed |-> 0]
                   ELSE windows[k]]
  /\ UNCHANGED <<rateLimitStore, reply, queried, call, server, adapter, batch>>

\* The setInterval callback: entries past their reset time are deleted.
StoreCleanup ==
  /\ \E k \in DOMAIN rateLimitStore : clock > rateLimitStore[k].resetTime
  /\ rateLimitStore' =
       [k \in {x \in DOMAIN rateLimitStore : clock <= rateLimitStore[x].resetTime}
          |-> rateLimitStore[k]]
  /\ UNCHANGED <<clock, windows, reply, queried, call, server, adapter, batch>>

NextRateLimit ==
  \/ HttpRequest
  \/ ClockAdvance
  \/ StoreCleanup

SpecRateLimit == InitConcurrent /\ [][NextRateLimit]_vars

-----------------------------------------------------------------------------
(* Vocabulary of the properties                                            *)

inputFormat == getExtension(inputPath)

Started == pc # "idle"

Done == pc = "done"

Succeeded == Done /\ result.status = "ok"

Failed == Done /\ result.status = "error"

\* The adapter calls started so far, in order: the settled ones and the one
\* being awaited.
Attempts ==
  LET settled == [i \in 1..Len(calls) |->
                    Invocation(calls[i].tool, calls[i].fn, calls[i].src, calls[i].dst)]
  IN  IF pending = NoCall THEN settled ELSE Append(settled, pending)

ToolsAttempted == {Attempts[i].tool : i \in 1..Len(Attempts)}

FailedCalls == {i \in 1..Len(calls) : calls[i].outcome # "ok"}

\* The listing grew by at most the final output file and lost nothing.
ListingIsBeforePlusOutput ==
  /\ filesBefore \subseteq DOMAIN files
  /\ DOMAIN files \subseteq filesBefore \cup {outputPath}

\* The hierarchy-preservation trigger for the request's own input.
HierarchyTrigger ==
  /\ inputFormat = "obj"
  /\ outputFormat \in {"glb", "gltf"}
  /\ (inputPath \in hierarchy \/ inputPath \in colonHead)

\* Positions whose code no supported request reaches.
UnreachedPositions == {"fb_freecad", "r5a_dxf", "r5a_dwg", "r5b_aps"}

NoUnreachedPosition == pc \notin UnreachedPositions /\ fbRet # "r8"

\* Requests whose FreeCAD external process is running.
FreecadProcesses ==
  {r \in Requests : jobs[r].pc = "freecad" /\ r \in freecadLimit.active}

Queued == {freecadLimit.queue[i] : i \in 1..Len(freecadLimit.queue)}

\* Requests between their first adapter call and their end.
Active == {r \in Requests : jobs[r].pc \notin {"idle", "done"}}

\* Requests whose awaited tool reads the temporary file of the request.
ReadingTemp ==
  {r \in Requests : \/ jobs[r].pc \in {"oda", "chain"}
                    \/ jobs[r].pc = "freecad" /\ jobs[r].kind = "r5b_step"}

-----------------------------------------------------------------------------
(* Properties                                                              *)

\* C1: once convertFile has returned or thrown, no intermediate file of the
\* call is left: the directory listing is the listing before the call plus
\* at most the final output file.
C1_NoResidualArtifacts == Done => ListingIsBeforePlusOutput

\* C2: a SimpleMesh -> SimpleMesh request (input # output) attempts the tools
\* in exactly the order Assimp, Blender, FreeCAD, APS (without Assimp when the
\* hierarchy trigger fires), each only after all earlier ones failed, none
\* after one succeeded, and fails only when the whole list was tried.
C2_MeshChainOrder ==
  (/\ Started
   /\ isSimpleMesh(inputFormat)
   /\ isSimpleMesh(outputFormat)
   /\ inputFormat # outputFormat)
  => LET order == IF HierarchyTrigger
                  THEN <<"blender", "freecad", "aps">>
                  ELSE <<"assimp", "blender", "freecad", "aps">>
     IN  /\ Len(Attempts) <= Len(order)
         /\ \A i \in 1..Len(Attempts) : Attempts[i].tool = order[i]
         /\ \A i \in 1..Len(Attempts) : i < Len(Attempts) => calls[i].outcome # "ok"
         /\ Succeeded => calls[Len(calls)].outcome = "ok"
         /\ Failed => Len(calls) = Len(order)

C6_NoApsNoToolNoTempFile ==
  (/\ Started
   /\ inputFormat \in {"dwg", "dxf"}
   /\ isSimpleMesh(outputFormat)
   /\ ~apsAvailable)
  => /\ Failed
     /\ calls = <<>>
     /\ pending = NoCall
     /\ DOMAIN files = filesBefore

C6_Witness ==
  /\ Failed
  /\ inputFormat = "dwg"
  /\ outputFormat = "glb"
  /\ ~apsAvailable
  /\ probes = 1

\* C7: BrepCad input, SimpleMesh output other than stl: FreeCAD is the first
\* tool invoked, once, on the original input, producing an stl; the fallback
\* chain runs on that stl only after FreeCAD succeeded and starts with
\* Assimp; Blender never gets the original input.
C7_BrepToMeshFreecadFirst ==
  (/\ Started
   /\ inputFormat \in BREP_CAD_FORMATS
   /\ outputFormat \in SIMPLE_MESH_FORMATS \ {"stl"})
  => /\ Len(Attempts) >= 1
     /\ Attempts[1] = convertWithFreecad(inputPath, "stl")
     /\ Cardinality({i \in 1..Len(Attempts) :
                       Attempts[i].tool = "freecad" /\ Attempts[i].src = inputPath}) = 1
     /\ Len(Attempts) >= 2 =>
          /\ calls[1].outcome = "ok"
          /\ Attempts[2] = assimpConvert(TempStl, outputPath)
     /\ \A i \in 1..Len(Attempts) :
          Attempts[i].tool = "blender" => Attempts[i].src # inputPath

C9_ErrorAggregatesAttempts ==
  (/\ Failed
   /\ fbRet = "r6")
  => /\ result.err.names = ToolsAttempted
     /\ result.err.msgs = FailedCalls

\* C10: the error convertFile throws is never the error object of a tool
\* invocation: it is always one the routing code created.
C10_NoToolErrorEscapes == Failed => result.err.origin = "routing"

\* C11: an input extension or an output format outside the supported formats
\* makes convertFile throw UnsupportedFormatError at once: no tool invoked, no
\* capability probed, no file created; the input format is checked first, so
\* when both are unsupported the error names the input format.
C11_UnsupportedFormatIsImmediate ==
  (/\ Started
   /\ \/ ~isSupportedInputFormat(inputFormat)
      \/ ~isSupportedOutputFormat(toLowerCase(requested)))
  => /\ Failed
     /\ result.err.class = "UnsupportedFormatError"
     /\ result.err.origin = "routing"
     /\ Attempts = <<>>
     /\ probes = 0
     /\ DOMAIN files = filesBefore
     /\ result.err.message = IF ~isSupportedInputFormat(inputFormat)
                             THEN inputFormat
                             ELSE toLowerCase(requested)

C11_Witness ==
  /\ Failed
  /\ inputFormat = "xyz"
  /\ requested = "3mf"
  /\ result.err = UnsupportedFormatError("xyz")

\* Call i of the log reads what call j wrote: the file itself, or the STL of
\* convertWithFreecad after convertFile moved it to its temporary name.
Feeds(j, i) ==
  \/ calls[i].src = calls[j].dst
  \/ /\ calls[j].fn = "convertWithFreecad"
     /\ calls[i].src = TempStl

\* C12: convertFile succeeds only if the stages succeeded in order: the last
\* invocation succeeded and produced the output, an invocation that follows a
\* successful one reads exactly the file that one produced, an invocation
\* that follows a failed one is another candidate for the same input (or for
\* the original input), and a call whose last invocation failed fails.
C12_StagesChainInOrder ==
  /\ \A i \in 2..Len(calls) :
        IF calls[i - 1].outcome = "ok"
        THEN Feeds(i - 1, i)
        ELSE calls[i].src \in {calls[i - 1].src, inputPath}
  /\ (Done /\ calls # <<>> /\ calls[Len(calls)].outcome # "ok") => Failed
  /\ (Succeeded /\ calls # <<>>) =>
        /\ calls[Len(calls)].outcome = "ok"
        /\ outputPath \in DOMAIN files
        /\ files[outputPath] = calls[Len(calls)].tool

C12_Witness ==
  /\ Succeeded
  /\ fbRet = "r3"
  /\ Len(calls) = 3
  /\ calls[1].outcome = "ok"
  /\ calls[2].outcome = "fail"
  /\ calls[3].src = TempObj

C14_FreecadQuota ==
  /\ Cardinality(FreecadProcesses) <= maxConcurrentBlender
  /\ Cardinality(freecadLimit.active) <= maxConcurrentBlender
  /\ \A r \in Requests :
        jobs[r].pc = "freecad" <=> (r \in freecadLimit.active \/ r \in Queued)

C14_Witness ==
  /\ Cardinality(FreecadProcesses) = maxConcurrentBlender
  /\ freecadLimit.queue # <<>>
  /\ \E a \in FreecadProcesses, b \in FreecadProcesses, c \in Queued :
        /\ jobs[a].kind = "r5a_mesh"
        /\ jobs[b].kind = "r5b_step"
        /\ jobs[c].kind = "r5a_cad"

\* C15: two concurrent calls never use the same temporary path, also when
\* they take their names in the same millisecond, so the temporary file a
\* call's tool reads is there and is the one the call wrote.
C15_TempPathsDisjoint ==
  /\ \A a \in Active, b \in Active :
        (a # b /\ jobs[a].temp # NoPath) => jobs[a].temp # jobs[b].temp
  /\ \A r \in ReadingTemp :
        jobs[r].temp \in DOMAIN dir /\ dir[jobs[r].temp] = r

\* The hierarchy-preservation trigger for the input and output of the chain.
ChainTrigger ==
  /\ getExtension(fbIn) = "obj"
  /\ getExtension(fbOut) \in {"glb", "gltf"}
  /\ (fbIn \in hierarchy \/ fbIn \in colonHead)

\* The adapter calls of the chain on its own input, in order.
ChainAttempts == SelectSeq(Attempts, LAMBDA a : a.src = fbIn /\ a.dst = fbOut)

C17_BrepToDwgViaFreecad ==
  (/\ Started
   /\ inputFormat \in BREP_CAD_FORMATS
   /\ outputFormat = "dwg")
  => /\ Len(Attempts) \in {1, 2}
     /\ Attempts[1] = convertCadToCad(inputPath, TempDxf)
     /\ Len(Attempts) = 2 => Attempts[2] = odaConvert(TempDxf, "dwg")
     /\ \A i \in 1..Len(Attempts) : Attempts[i].tool # "blender"

\* C18: BrepCad input, output dxf: one stage whose only candidate is FreeCAD
\* CAD-to-CAD; Blender is never invoked.
C18_BrepToDxfViaFreecad ==
  (/\ Started
   /\ inputFormat \in BREP_CAD_FORMATS
   /\ outputFormat = "dxf")
  => /\ Attempts = <<convertCadToCad(inputPath, outputPath)>>
     /\ \A i \in 1..Len(Attempts) : Attempts[i].tool # "blender"

SolidifyPlan ==
  IF isStepFormat(outputFormat)
  THEN <<blenderConvert(inputPath, TempStl),
         convertMeshToStep(TempStl, outputPath)>>
  ELSE <<blenderConvert(inputPath, TempStl),
         convertMeshToStep(TempStl, TempStep),
         convertCadToCad(TempStep, outputPath)>>

C21_AcisToBrepSolidify ==
  (/\ Started
   /\ inputFormat \in {"dwg", "dxf"}
   /\ outputFormat \in BREP_CAD_FORMATS
   /\ apsAvailable)
  => /\ Attempts[1].tool = "aps"
     /\ Attempts[1].src = inputPath
     /\ getExtension(Attempts[1].dst) = "obj"
     /\ Len(Attempts) >= 2 =>
          /\ Attempts[2].tool = "blender"
          /\ Attempts[2].src = Attempts[1].dst
          /\ getExtension(Attempts[2].dst) = "stl"
     /\ Len(Attempts) >= 3 =>
          /\ Attempts[3].tool = "freecad"
          /\ Attempts[3].src = Attempts[2].dst
     /\ Succeeded => files[outputPath] = "freecad"

C23_MeshToDxfBlenderOnly ==
  (/\ Started
   /\ isSimpleMesh(inputFormat)
   /\ outputFormat = "dxf")
  => /\ Attempts = <<blenderConvert(inputPath, outputPath)>>
     /\ Done => Len(calls) = 1
     /\ (Done /\ calls[1].outcome = "ok") => (Succeeded /\ result.tool = "blender")
     /\ (Done /\ calls[1].outcome # "ok") =>
          /\ Failed
          /\ result.err.class = "ConversionError"
          /\ result.err.origin = "routing"

C23_Witness ==
  /\ Failed
  /\ inputFormat = "fbx"
  /\ outputFormat = "dxf"
  /\ Len(calls) = 1
  /\ calls[1].tool = "blender"

\* The invocations that succeeded: those whose output went into the result.
OkCalls == {i \in 1..Len(calls) : calls[i].outcome = "ok"}

ToolTags == {"assimp", "blender", "oda", "aps", "freecad"}

\* C24: a successful outcome is tagged 'pipeline' exactly when more than one
\* tool invocation contributed to the output; with one invocation the tag is
\* that tool, and a plain copy is tagged with no tool.
C24_PipelineTagIffSeveralTools ==
  Succeeded =>
    CASE Cardinality(OkCalls) > 1 -> result.tool = "pipeline"
      [] Cardinality(OkCalls) = 1 -> result.tool = calls[CHOOSE i \in OkCalls : TRUE].tool
      [] OTHER -> result.tool \notin ToolTags \cup {"pipeline"}

\* C25: no invocation converts a file to the format it already has.
C25_NoStageToSameFormat ==
  \A i \in 1..Len(Attempts) :
    getExtension(Attempts[i].src) # getExtension(Attempts[i].dst)

\* C26: once an invocation has produced a file in the requested output
\* format, no further tool is invoked: the file is the output, moved to the
\* output path when it was written elsewhere.
C26_IntermediateInTargetFormatIsMoved ==
  \A i \in 1..Len(calls) :
    (calls[i].outcome = "ok" /\ getExtension(calls[i].dst) = outputFormat)
    => /\ Len(Attempts) = i
       /\ Succeeded
       /\ outputPath \in DOMAIN files
       /\ files[outputPath] = calls[i].tool
       /\ calls[i].dst # outputPath => calls[i].dst \notin DOMAIN files

C26_Witness ==
  /\ Succeeded
  /\ fbRet = "r6"
  /\ outputFormat = "obj"
  /\ Len(calls) = 3
  /\ calls[3] = [tool |-> "aps", fn |-> "apsConvert", src |-> inputPath,
                  dst |-> FbTempAps, outcome |-> "ok"]
  /\ files[outputPath] = "aps"
  /\ FbTempAps \notin DOMAIN files

AdapterSettledRight ==
  /\ fcResult.settles <= 1
  /\ runPromise.settles <= 1
  /\ (fcCall.pc \in {"returned", "thrown"}) <=> (fcResult.state # "pending")
  /\ fcResult.state = "fulfilled" =>
       /\ proc.state = "closed"
       /\ proc.code = "0"
       /\ proc.errors = 0
       /\ outFile = "data"
       /\ fcResult.outputPath = fcCall.dst
  /\ fcResult.state = "rejected" => fcResult.err.class = "ConversionError"
  /\ proc.errors > 0 => fcResult.state = "rejected"
  /\ (proc.state = "closed" /\ proc.code # "0") => fcResult.state = "rejected"
  /\ (fcResult.state # "pending" /\ outFile # "data") => fcResult.state = "rejected"

\* C28: a FreeCAD adapter call resolves with its output path only if the
\* process closed with code 0 and the output file exists with non-zero size;
\* a process error, a close with another code (null after the timeout kill
\* included), a missing output and an empty output each reject it with a
\* ConversionError; every call made settles, and settles once.
C28_AdapterSettlesOnceAndRight ==
  /\ []AdapterSettledRight
  /\ (fcCall.pc = "runFreecad") ~> (fcResult.state # "pending")

C28_Witness ==
  /\ fcResult.state = "rejected"
  /\ fcResult.settles = 1
  /\ proc.state = "closed"
  /\ proc.code = "0"
  /\ proc.errors = 0
  /\ outFile = "empty"

\* Files of the batch job with status 'converting'.
Converting == {i \in 1..Len(job.files) : job.files[i].status = "converting"}

\* processBatchJob invocations inside the loop.
Looping == {w \in Invocations : workers[w].pc \in {"convertFile", "move", "removeInput"}}

\* C29: within one batch job at most one file has status 'converting' at any
\* moment, convertFile is called for the files in list order and for no file
\* twice, and at most one processBatchJob invocation is in the loop, however
\* many times processBatchJob is invoked for the job.
C29_OneFileAtATimeInOrder ==
  /\ Cardinality(Converting) <= 1
  /\ Cardinality(Looping) <= 1
  /\ \A a, b \in 1..Len(started) : a < b => started[a].file < started[b].file

C29_Witness ==
  /\ \E w \in Invocations : workers[w].pc = "busy"
  /\ \E w \in Invocations : workers[w].pc = "convertFile" /\ workers[w].file = 2
  /\ Len(started) = 2

\* C30: once cleanupJob has completed, no convertFile call of the job is made
\* any more, and when processBatchJob is not in its loop no input or output
\* file of the job is on disk.
C30_CleanupCancelsAndCleans ==
  CleanupDone =>
    /\ \A a \in 1..Len(started) : ~started[a].late
    /\ Looping = {} => disk = {}

\* Positions and chain call sites of routes 7 and 8.
Route7Positions == {"r7_blender", "r7_freecad", "r7_aps_in", "r7_aps_out"}

Route78Sites == {"r7_fc", "r7_aps_in", "r7_aps_out", "r8"}

\* C31: in the BrepCad-aware module every supported pair with different
\* formats is taken by one of routes 1-6: the call is never at a position of
\* route 7, and the chain is never entered from route 7 or route 8.
C31_Routes7And8NeverRun ==
  (routing = "brep" /\ Started) =>
    /\ SelectRoute(inputFormat, outputFormat) \notin {"r7", "r8"}
    /\ pc \notin Route7Positions
    /\ fbRet \notin Route78Sites

\* A STEP -> mesh request, which the older if-chain gives to route 7, has
\* been served.
C31_Witness ==
  /\ routing = "brep"
  /\ isStepFormat(inputFormat)
  /\ isSimpleMesh(outputFormat)
  /\ SelectRouteLegacy(inputFormat, outputFormat) = "r7"
  /\ Succeeded

\* C32: the APS adapter is invoked only after isApsAvailable() was called and
\* answered true; in a request where it answers false no route and no
\* fallback position invokes APS.
C32_NoApsCallWhenUnavailable ==
  /\ ~apsAvailable => "aps" \notin ToolsAttempted
  /\ "aps" \in ToolsAttempted => probes >= 1

\* Without APS, a mesh -> mesh request came to the APS step of the chain
\* after Assimp and Blender failed, and ended there.
C32_Witness ==
  /\ ~apsAvailable
  /\ fbRet = "r6"
  /\ Failed
  /\ result.err = AllMethodsFailed
  /\ probes >= 1
  /\ Len(calls) = 2

\* Files of the batch job that are 'completed' or 'error'.
Finished == {i \in 1..Len(job.files) : job.files[i].status \in {"completed", "error"}}

\* C33: a started batch job finishes: while processBatchJob is in its loop
\* every pending file comes to 'completed' or 'error', also after a file
\* before it failed, and the loop ends; when it has ended isProcessing is
\* false and completedCount equals totalCount.
C33_BatchJobFinishes ==
  /\ \A i \in 1..MaxFiles :
       (Looping # {} /\ i <= Len(job.files) /\ job.files[i].status = "pending")
         ~> (i \in Finished)
  /\ (Looping # {}) ~> (Looping = {})
  /\ []((Looping = {} /\ \E w \in Invocations : workers[w].pc = "done") =>
         /\ ~job.isProcessing
         /\ job.completedCount = job.totalCount
         /\ Finished = 1..Len(job.files))

\* The first file failed, the second was converted after it, the loop ended.
C33_Witness ==
  /\ Len(job.files) = 2
  /\ job.files[1].status = "error"
  /\ job.files[2].status = "completed"
  /\ Looping = {}
  /\ ~job.isProcessing
  /\ job.completedCount = job.totalCount

\* C34: completedCount is the number of files that are 'completed' or
\* 'error', between 0 and totalCount, the number of files the job was created
\* with.
C34_CompletedCountIsFinishedFiles ==
  /\ job.completedCount = Cardinality(Finished)
  /\ 0 <= job.completedCount
  /\ job.completedCount <= job.totalCount
  /\ job.totalCount = Len(job.files)

C34_Witness ==
  /\ job.totalCount = 2
  /\ job.completedCount = 1
  /\ Converting = {2}
  /\ job.files[1].status = "completed"

\* The fields of file f fit its status.
FieldsFit(f) ==
  /\ (f.downloadUrl /\ f.outputPath /\ f.tool) <=> f.status = "completed"
  /\ (f.downloadUrl \/ f.outputPath \/ f.tool) => f.status = "completed"
  /\ f.error <=> f.status = "error"

\* A step of the status of a file.
StatusStep(a, b) ==
  \/ a = b
  \/ a = "pending" /\ b = "converting"
  \/ a = "converting" /\ b \in {"completed", "error"}

\* C35: the status of a batch file moves pending -> converting -> completed
\* or error only, 'completed' and 'error' are left no more, downloadUrl,
\* outputPath and tool are set exactly when the file is 'completed' and error
\* exactly when it is 'error'.
C35_FileStatusLifecycle ==
  /\ [](\A i \in 1..Len(job.files) : FieldsFit(job.files[i]))
  /\ [][\A i \in 1..Len(job.files) :
          StatusStep(job.files[i].status, job'.files[i].status)]_vars

C35_Witness ==
  /\ Len(job.files) = 2
  /\ job.files[1].status = "completed"
  /\ job.files[1].outputPath
  /\ job.files[2].status = "error"
  /\ job.files[2].error
  /\ ~job.files[2].outputPath

\* C36: a request is in a slot of the FreeCAD limiter only while its FreeCAD
\* invocation is unsettled, whatever the outcome of the invocation; a request
\* in a slot waits in no queue; and every queued invocation is admitted.
C36_SlotsComeBack ==
  /\ [](\A r \in freecadLimit.active : jobs[r].pc = "freecad")
  /\ [](freecadLimit.active \cap Queued = {})
  /\ [](freecadLimit.queue # <<>> =>
          Cardinality(freecadLimit.active) = maxConcurrentBlender)
  /\ \A r \in Requests : (r \in Queued) ~> (r \in freecadLimit.active)

\* A request gave its slot back and went on with the chain, another request
\* ended, and the slots are taken by the other requests.
C36_Witness ==
  /\ \E a \in Requests : jobs[a].pc = "chain" /\ a \notin freecadLimit.active
  /\ \E b \in Requests : jobs[b].pc = "done"
  /\ freecadLimit.active # {}
  /\ freecadLimit.queue = <<>>

\* What a tool was asked for: the tool, its input file and its output file.
Asked(a) == <<a.tool, a.src, a.dst>>

C38_RateLimitPerWindow ==
  /\ windows["convert"].passed <= conversionMaxRequests
  /\ windows["general"].passed <= defaultMaxRequests
  /\ reply.status = 429 => reply.retryAfter
  /\ reply.kind = "health" => (~reply.counted /\ reply.status = 200)

====
